---- MODULE Spec2Model ----
(***************************************************************************)
(* Model of the USIU-Africa study pod booking widget (src/script.js).      *)
(*                                                                         *)
(* JavaScript strings that the code takes apart (student input, time      *)
(* input, student IDs) are sequences of one-character strings, so that     *)
(* split, trim, toUpperCase and parseInt are computed as the code          *)
(* computes them.  Pod IDs are only compared, and stay TLA+ strings.       *)
(* A character outside printable ASCII, other than \t, \n, \r and \f, is   *)
(* written by its code point, as in "U+00A0".                              *)
(***************************************************************************)
EXTENDS Integers, Sequences, FiniteSets

VARIABLES bookings, duplicateAttempts, errorsShown, insightsShown, returned

vars == <<bookings, duplicateAttempts, errorsShown, insightsShown, returned>>

(***************************************************************************)
(* Bounds of the model.                                                    *)
(***************************************************************************)
\* the counter is unbounded in the code; steps that would take it above
\* MaxDup are not explored
MaxDup == 2
\* largest store (number of bookings) that is explored
MaxBookings == 4
\* handler steps taken from the initial store before validateBooking is
\* called directly
SetupSteps == 3

(***************************************************************************)
(* String primitives of JavaScript used by the code.                       *)
(***************************************************************************)
\* WhiteSpace and LineTerminator of ECMAScript: what trim strips and
\* parseInt skips
Whitespace ==
    {" ", "\t", "\n", "\r", "\f", "U+000B", "U+00A0", "U+1680",
     "U+2000", "U+2001", "U+2002", "U+2003", "U+2004", "U+2005", "U+2006",
     "U+2007", "U+2008", "U+2009", "U+200A", "U+2028", "U+2029", "U+202F",
     "U+205F", "U+3000", "U+FEFF"}

LowerCase == <<"a", "b", "c", "d", "e", "f", "g", "h", "i", "j", "k", "l", "m",
               "n", "o", "p", "q", "r", "s", "t", "u", "v", "w", "x", "y", "z">>

UpperCase == <<"A", "B", "C", "D", "E", "F", "G", "H", "I", "J", "K", "L", "M",
               "N", "O", "P", "Q", "R", "S", "T", "U", "V", "W", "X", "Y", "Z">>

Digits == <<"0", "1", "2", "3", "4", "5", "6", "7", "8", "9">>

\* the upper case of a character outside ASCII: the case mapping of
\* Unicode 17, which gives more than one character for some
UpperSpecial(c) ==
    CASE c = "U+00B5" -> <<"U+039C">> [] c = "U+00DF" -> <<"S", "S">>
      [] c = "U+00E0" -> <<"U+00C0">> [] c = "U+00E1" -> <<"U+00C1">>
      [] c = "U+00E2" -> <<"U+00C2">> [] c = "U+00E3" -> <<"U+00C3">>
      [] c = "U+00E4" -> <<"U+00C4">> [] c = "U+00E5" -> <<"U+00C5">>
      [] c = "U+00E6" -> <<"U+00C6">> [] c = "U+00E7" -> <<"U+00C7">>
      [] c = "U+00E8" -> <<"U+00C8">> [] c = "U+00E9" -> <<"U+00C9">>
      [] c = "U+00EA" -> <<"U+00CA">> [] c = "U+00EB" -> <<"U+00CB">>
      [] c = "U+00EC" -> <<"U+00CC">> [] c = "U+00ED" -> <<"U+00CD">>
      [] c = "U+00EE" -> <<"U+00CE">> [] c = "U+00EF" -> <<"U+00CF">>
      [] c = "U+00F0" -> <<"U+00D0">> [] c = "U+00F1" -> <<"U+00D1">>
      [] c = "U+00F2" -> <<"U+00D2">> [] c = "U+00F3" -> <<"U+00D3">>
      [] c = "U+00F4" -> <<"U+00D4">> [] c = "U+00F5" -> <<"U+00D5">>
      [] c = "U+00F6" -> <<"U+00D6">> [] c = "U+00F8" -> <<"U+00D8">>
      [] c = "U+00F9" -> <<"U+00D9">> [] c = "U+00FA" -> <<"U+00DA">>
      [] c = "U+00FB" -> <<"U+00DB">> [] c = "U+00FC" -> <<"U+00DC">>
      [] c = "U+00FD" -> <<"U+00DD">> [] c = "U+00FE" -> <<"U+00DE">>
      [] c = "U+00FF" -> <<"U+0178">> [] c = "U+0101" -> <<"U+0100">>
      [] c = "U+0103" -> <<"U+0102">> [] c = "U+0105" -> <<"U+0104">>
      [] c = "U+0107" -> <<"U+0106">> [] c = "U+0109" -> <<"U+0108">>
      [] c = "U+010B" -> <<"U+010A">> [] c = "U+010D" -> <<"U+010C">>
      [] c = "U+010F" -> <<"U+010E">> [] c = "U+0111" -> <<"U+0110">>
      [] c = "U+0113" -> <<"U+0112">> [] c = "U+0115" -> <<"U+0114">>
      [] c = "U+0117" -> <<"U+0116">> [] c = "U+0119" -> <<"U+0118">>
      [] c = "U+011B" -> <<"U+011A">> [] c = "U+011D" -> <<"U+011C">>
      [] c = "U+011F" -> <<"U+011E">> [] c = "U+0121" -> <<"U+0120">>
      [] c = "U+0123" -> <<"U+0122">> [] c = "U+0125" -> <<"U+0124">>
      [] c = "U+0127" -> <<"U+0126">> [] c = "U+0129" -> <<"U+0128">>
      [] c = "U+012B" -> <<"U+012A">> [] c = "U+012D" -> <<"U+012C">>
      [] c = "U+012F" -> <<"U+012E">> [] c = "U+0131" -> <<"I">>
      [] c = "U+0133" -> <<"U+0132">> [] c = "U+0135" -> <<"U+0134">>
      [] c = "U+0137" -> <<"U+0136">> [] c = "U+013A" -> <<"U+0139">>
      [] c = "U+013C" -> <<"U+013B">> [] c = "U+013E" -> <<"U+013D">>
      [] c = "U+0140" -> <<"U+013F">> [] c = "U+0142" -> <<"U+0141">>
      [] c = "U+0144" -> <<"U+0143">> [] c = "U+0146" -> <<"U+0145">>
      [] c = "U+0148" -> <<"U+0147">> [] c = "U+0149" -> <<"U+02BC", "N">>
      [] c = "U+014B" -> <<"U+014A">> [] c = "U+014D" -> <<"U+014C">>
      [] c = "U+014F" -> <<"U+014E">> [] c = "U+0151" -> <<"U+0150">>
      [] c = "U+0153" -> <<"U+0152">> [] c = "U+0155" -> <<"U+0154">>
      [] c = "U+0157" -> <<"U+0156">> [] c = "U+0159" -> <<"U+0158">>
      [] c = "U+015B" -> <<"U+015A">> [] c = "U+015D" -> <<"U+015C">>
      [] c = "U+015F" -> <<"U+015E">> [] c = "U+0161" -> <<"U+0160">>
      [] c = "U+0163" -> <<"U+0162">> [] c = "U+0165" -> <<"U+0164">>
      [] c = "U+0167" -> <<"U+0166">> [] c = "U+0169" -> <<"U+0168">>
      [] c = "U+016B" -> <<"U+016A">> [] c = "U+016D" -> <<"U+016C">>
      [] c = "U+016F" -> <<"U+016E">> [] c = "U+0171" -> <<"U+0170">>
      [] c = "U+0173" -> <<"U+0172">> [] c = "U+0175" -> <<"U+0174">>
      [] c = "U+0177" -> <<"U+0176">> [] c = "U+017A" -> <<"U+0179">>
      [] c = "U+017C" -> <<"U+017B">> [] c = "U+017E" -> <<"U+017D">>
      [] c = "U+017F" -> <<"S">> [] c = "U+0180" -> <<"U+0243">>
      [] c = "U+0183" -> <<"U+0182">> [] c = "U+0185" -> <<"U+0184">>
      [] c = "U+0188" -> <<"U+0187">> [] c = "U+018C" -> <<"U+018B">>
      [] c = "U+0192" -> <<"U+0191">> [] c = "U+0195" -> <<"U+01F6">>
      [] c = "U+0199" -> <<"U+0198">> [] c = "U+019A" -> <<"U+023D">>
      [] c = "U+019E" -> <<"U+0220">> [] c = "U+01A1" -> <<"U+01A0">>
      [] c = "U+01A3" -> <<"U+01A2">> [] c = "U+01A5" -> <<"U+01A4">>
      [] c = "U+01A8" -> <<"U+01A7">> [] c = "U+01AD" -> <<"U+01AC">>
      [] c = "U+01B0" -> <<"U+01AF">> [] c = "U+01B4" -> <<"U+01B3">>
      [] c = "U+01B6" -> <<"U+01B5">> [] c = "U+01B9" -> <<"U+01B8">>
      [] c = "U+01BD" -> <<"U+01BC">> [] c = "U+01BF" -> <<"U+01F7">>
      [] c = "U+01C5" -> <<"U+01C4">> [] c = "U+01C6" -> <<"U+01C4">>
      [] c = "U+01C8" -> <<"U+01C7">> [] c = "U+01C9" -> <<"U+01C7">>
      [] c = "U+01CB" -> <<"U+01CA">> [] c = "U+01CC" -> <<"U+01CA">>
      [] c = "U+01CE" -> <<"U+01CD">> [] c = "U+01D0" -> <<"U+01CF">>
      [] c = "U+01D2" -> <<"U+01D1">> [] c = "U+01D4" -> <<"U+01D3">>
      [] c = "U+01D6" -> <<"U+01D5">> [] c = "U+01D8" -> <<"U+01D7">>
      [] c = "U+01DA" -> <<"U+01D9">> [] c = "U+01DC" -> <<"U+01DB">>
      [] c = "U+01DD" -> <<"U+018E">> [] c = "U+01DF" -> <<"U+01DE">>
      [] c = "U+01E1" -> <<"U+01E0">> [] c = "U+01E3" -> <<"U+01E2">>
      [] c = "U+01E5" -> <<"U+01E4">> [] c = "U+01E7" -> <<"U+01E6">>
      [] c = "U+01E9" -> <<"U+01E8">> [] c = "U+01EB" -> <<"U+01EA">>
      [] c = "U+01ED" -> <<"U+01EC">> [] c = "U+01EF" -> <<"U+01EE">>
      [] c = "U+01F0" -> <<"J", "U+030C">> [] c = "U+01F2" -> <<"U+01F1">>
      [] c = "U+01F3" -> <<"U+01F1">> [] c = "U+01F5" -> <<"U+01F4">>
      [] c = "U+01F9" -> <<"U+01F8">> [] c = "U+01FB" -> <<"U+01FA">>
      [] c = "U+01FD" -> <<"U+01FC">> [] c = "U+01FF" -> <<"U+01FE">>
      [] c = "U+0201" -> <<"U+0200">> [] c = "U+0203" -> <<"U+0202">>
      [] c = "U+0205" -> <<"U+0204">> [] c = "U+0207" -> <<"U+0206">>
      [] c = "U+0209" -> <<"U+0208">> [] c = "U+020B" -> <<"U+020A">>
      [] c = "U+020D" -> <<"U+020C">> [] c = "U+020F" -> <<"U+020E">>
      [] c = "U+0211" -> <<"U+0210">> [] c = "U+0213" -> <<"U+0212">>
      [] c = "U+0215" -> <<"U+0214">> [] c = "U+0217" -> <<"U+0216">>
      [] c = "U+0219" -> <<"U+0218">> [] c = "U+021B" -> <<"U+021A">>
      [] c = "U+021D" -> <<"U+021C">> [] c = "U+021F" -> <<"U+021E">>
      [] c = "U+0223" -> <<"U+0222">> [] c = "U+0225" -> <<"U+0224">>
      [] c = "U+0227" -> <<"U+0226">> [] c = "U+0229" -> <<"U+0228">>
      [] c = "U+022B" -> <<"U+022A">> [] c = "U+022D" -> <<"U+022C">>
      [] c = "U+022F" -> <<"U+022E">> [] c = "U+0231" -> <<"U+0230">>
      [] c = "U+0233" -> <<"U+0232">> [] c = "U+023C" -> <<"U+023B">>
      [] c = "U+023F" -> <<"U+2C7E">> [] c = "U+0240" -> <<"U+2C7F">>
      [] c = "U+0242" -> <<"U+0241">> [] c = "U+0247" -> <<"U+0246">>
      [] c = "U+0249" -> <<"U+0248">> [] c = "U+024B" -> <<"U+024A">>
      [] c = "U+024D" -> <<"U+024C">> [] c = "U+024F" -> <<"U+024E">>
      [] c = "U+0250" -> <<"U+2C6F">> [] c = "U+0251" -> <<"U+2C6D">>
      [] c = "U+0252" -> <<"U+2C70">> [] c = "U+0253" -> <<"U+0181">>
      [] c = "U+0254" -> <<"U+0186">> [] c = "U+0256" -> <<"U+0189">>
      [] c = "U+0257" -> <<"U+018A">> [] c = "U+0259" -> <<"U+018F">>
      [] c = "U+025B" -> <<"U+0190">> [] c = "U+025C" -> <<"U+A7AB">>
      [] c = "U+0260" -> <<"U+0193">> [] c = "U+0261" -> <<"U+A7AC">>
      [] c = "U+0263" -> <<"U+0194">> [] c = "U+0265" -> <<"U+A78D">>
      [] c = "U+0266" -> <<"U+A7AA">> [] c = "U+0268" -> <<"U+0197">>
      [] c = "U+0269" -> <<"U+0196">> [] c = "U+026A" -> <<"U+A7AE">>
      [] c = "U+026B" -> <<"U+2C62">> [] c = "U+026C" -> <<"U+A7AD">>
      [] c = "U+026F" -> <<"U+019C">> [] c = "U+0271" -> <<"U+2C6E">>
      [] c = "U+0272" -> <<"U+019D">> [] c = "U+0275" -> <<"U+019F">>
      [] c = "U+027D" -> <<"U+2C64">> [] c = "U+0280" -> <<"U+01A6">>
      [] c = "U+0282" -> <<"U+A7C5">> [] c = "U+0283" -> <<"U+01A9">>
      [] c = "U+0287" -> <<"U+A7B1">> [] c = "U+0288" -> <<"U+01AE">>
      [] c = "U+0289" -> <<"U+0244">> [] c = "U+028A" -> <<"U+01B1">>
      [] c = "U+028B" -> <<"U+01B2">> [] c = "U+028C" -> <<"U+0245">>
      [] c = "U+0292" -> <<"U+01B7">> [] c = "U+029D" -> <<"U+A7B2">>
      [] c = "U+029E" -> <<"U+A7B0">> [] c = "U+0345" -> <<"U+0399">>
      [] c = "U+0371" -> <<"U+0370">> [] c = "U+0373" -> <<"U+0372">>
      [] c = "U+0377" -> <<"U+0376">> [] c = "U+037B" -> <<"U+03FD">>
      [] c = "U+037C" -> <<"U+03FE">> [] c = "U+037D" -> <<"U+03FF">>
      [] c = "U+0390" -> <<"U+0399", "U+0308", "U+0301">>
      [] c = "U+03AC" -> <<"U+0386">> [] c = "U+03AD" -> <<"U+0388">>
      [] c = "U+03AE" -> <<"U+0389">> [] c = "U+03AF" -> <<"U+038A">>
      [] c = "U+03B0" -> <<"U+03A5", "U+0308", "U+0301">>
      [] c = "U+03B1" -> <<"U+0391">> [] c = "U+03B2" -> <<"U+0392">>
      [] c = "U+03B3" -> <<"U+0393">> [] c = "U+03B4" -> <<"U+0394">>
      [] c = "U+03B5" -> <<"U+0395">> [] c = "U+03B6" -> <<"U+0396">>
      [] c = "U+03B7" -> <<"U+0397">> [] c = "U+03B8" -> <<"U+0398">>
      [] c = "U+03B9" -> <<"U+0399">> [] c = "U+03BA" -> <<"U+039A">>
      [] c = "U+03BB" -> <<"U+039B">> [] c = "U+03BC" -> <<"U+039C">>
      [] c = "U+03BD" -> <<"U+039D">> [] c = "U+03BE" -> <<"U+039E">>
      [] c = "U+03BF" -> <<"U+039F">> [] c = "U+03C0" -> <<"U+03A0">>
      [] c = "U+03C1" -> <<"U+03A1">> [] c = "U+03C2" -> <<"U+03A3">>
      [] c = "U+03C3" -> <<"U+03A3">> [] c = "U+03C4" -> <<"U+03A4">>
      [] c = "U+03C5" -> <<"U+03A5">> [] c = "U+03C6" -> <<"U+03A6">>
      [] c = "U+03C7" -> <<"U+03A7">> [] c = "U+03C8" -> <<"U+03A8">>
      [] c = "U+03C9" -> <<"U+03A9">> [] c = "U+03CA" -> <<"U+03AA">>
      [] c = "U+03CB" -> <<"U+03AB">> [] c = "U+03CC" -> <<"U+038C">>
      [] c = "U+03CD" -> <<"U+038E">> [] c = "U+03CE" -> <<"U+038F">>
      [] c = "U+03D0" -> <<"U+0392">> [] c = "U+03D1" -> <<"U+0398">>
      [] c = "U+03D5" -> <<"U+03A6">> [] c = "U+03D6" -> <<"U+03A0">>
      [] c = "U+03D7" -> <<"U+03CF">> [] c = "U+03D9" -> <<"U+03D8">>
      [] c = "U+03DB" -> <<"U+03DA">> [] c = "U+03DD" -> <<"U+03DC">>
      [] c = "U+03DF" -> <<"U+03DE">> [] c = "U+03E1" -> <<"U+03E0">>
      [] c = "U+03E3" -> <<"U+03E2">> [] c = "U+03E5" -> <<"U+03E4">>
      [] c = "U+03E7" -> <<"U+03E6">> [] c = "U+03E9" -> <<"U+03E8">>
      [] c = "U+03EB" -> <<"U+03EA">> [] c = "U+03ED" -> <<"U+03EC">>
      [] c = "U+03EF" -> <<"U+03EE">> [] c = "U+03F0" -> <<"U+039A">>
      [] c = "U+03F1" -> <<"U+03A1">> [] c = "U+03F2" -> <<"U+03F9">>
      [] c = "U+03F3" -> <<"U+037F">> [] c = "U+03F5" -> <<"U+0395">>
      [] c = "U+03F8" -> <<"U+03F7">> [] c = "U+03FB" -> <<"U+03FA">>
      [] c = "U+0430" -> <<"U+0410">> [] c = "U+0431" -> <<"U+0411">>
      [] c = "U+0432" -> <<"U+0412">> [] c = "U+0433" -> <<"U+0413">>
      [] c = "U+0434" -> <<"U+0414">> [] c = "U+0435" -> <<"U+0415">>
      [] c = "U+0436" -> <<"U+0416">> [] c = "U+0437" -> <<"U+0417">>
      [] c = "U+0438" -> <<"U+0418">> [] c = "U+0439" -> <<"U+0419">>
      [] c = "U+043A" -> <<"U+041A">> [] c = "U+043B" -> <<"U+041B">>
      [] c = "U+043C" -> <<"U+041C">> [] c = "U+043D" -> <<"U+041D">>
      [] c = "U+043E" -> <<"U+041E">> [] c = "U+043F" -> <<"U+041F">>
      [] c = "U+0440" -> <<"U+0420">> [] c = "U+0441" -> <<"U+0421">>
      [] c = "U+0442" -> <<"U+0422">> [] c = "U+0443" -> <<"U+0423">>
      [] c = "U+0444" -> <<"U+0424">> [] c = "U+0445" -> <<"U+0425">>
      [] c = "U+0446" -> <<"U+0426">> [] c = "U+0447" -> <<"U+0427">>
      [] c = "U+0448" -> <<"U+0428">> [] c = "U+0449" -> <<"U+0429">>
      [] c = "U+044A" -> <<"U+042A">> [] c = "U+044B" -> <<"U+042B">>
      [] c = "U+044C" -> <<"U+042C">> [] c = "U+044D" -> <<"U+042D">>
      [] c = "U+044E" -> <<"U+042E">> [] c = "U+044F" -> <<"U+042F">>
      [] c = "U+0450" -> <<"U+0400">> [] c = "U+0451" -> <<"U+0401">>
      [] c = "U+0452" -> <<"U+0402">> [] c = "U+0453" -> <<"U+0403">>
      [] c = "U+0454" -> <<"U+0404">> [] c = "U+0455" -> <<"U+0405">>
      [] c = "U+0456" -> <<"U+0406">> [] c = "U+0457" -> <<"U+0407">>
      [] c = "U+0458" -> <<"U+0408">> [] c = "U+0459" -> <<"U+0409">>
      [] c = "U+045A" -> <<"U+040A">> [] c = "U+045B" -> <<"U+040B">>
      [] c = "U+045C" -> <<"U+040C">> [] c = "U+045D" -> <<"U+040D">>
      [] c = "U+045E" -> <<"U+040E">> [] c = "U+045F" -> <<"U+040F">>
      [] c = "U+0461" -> <<"U+0460">> [] c = "U+0463" -> <<"U+0462">>
      [] c = "U+0465" -> <<"U+0464">> [] c = "U+0467" -> <<"U+0466">>
      [] c = "U+0469" -> <<"U+0468">> [] c = "U+046B" -> <<"U+046A">>
      [] c = "U+046D" -> <<"U+046C">> [] c = "U+046F" -> <<"U+046E">>
      [] c = "U+0471" -> <<"U+0470">> [] c = "U+0473" -> <<"U+0472">>
      [] c = "U+0475" -> <<"U+0474">> [] c = "U+0477" -> <<"U+0476">>
      [] c = "U+0479" -> <<"U+0478">> [] c = "U+047B" -> <<"U+047A">>
      [] c = "U+047D" -> <<"U+047C">> [] c = "U+047F" -> <<"U+047E">>
      [] c = "U+0481" -> <<"U+0480">> [] c = "U+048B" -> <<"U+048A">>
      [] c = "U+048D" -> <<"U+048C">> [] c = "U+048F" -> <<"U+048E">>
      [] c = "U+0491" -> <<"U+0490">> [] c = "U+0493" -> <<"U+0492">>
      [] c = "U+0495" -> <<"U+0494">> [] c = "U+0497" -> <<"U+0496">>
      [] c = "U+0499" -> <<"U+0498">> [] c = "U+049B" -> <<"U+049A">>
      [] c = "U+049D" -> <<"U+049C">> [] c = "U+049F" -> <<"U+049E">>
      [] c = "U+04A1" -> <<"U+04A0">> [] c = "U+04A3" -> <<"U+04A2">>
      [] c = "U+04A5" -> <<"U+04A4">> [] c = "U+04A7" -> <<"U+04A6">>
      [] c = "U+04A9" -> <<"U+04A8">> [] c = "U+04AB" -> <<"U+04AA">>
      [] c = "U+04AD" -> <<"U+04AC">> [] c = "U+04AF" -> <<"U+04AE">>
      [] c = "U+04B1" -> <<"U+04B0">> [] c = "U+04B3" -> <<"U+04B2">>
      [] c = "U+04B5" -> <<"U+04B4">> [] c = "U+04B7" -> <<"U+04B6">>
      [] c = "U+04B9" -> <<"U+04B8">> [] c = "U+04BB" -> <<"U+04BA">>
      [] c = "U+04BD" -> <<"U+04BC">> [] c = "U+04BF" -> <<"U+04BE">>
      [] c = "U+04C2" -> <<"U+04C1">> [] c = "U+04C4" -> <<"U+04C3">>
      [] c = "U+04C6" -> <<"U+04C5">> [] c = "U+04C8" -> <<"U+04C7">>
      [] c = "U+04CA" -> <<"U+04C9">> [] c = "U+04CC" -> <<"U+04CB">>
      [] c = "U+04CE" -> <<"U+04CD">> [] c = "U+04CF" -> <<"U+04C0">>
      [] c = "U+04D1" -> <<"U+04D0">> [] c = "U+04D3" -> <<"U+04D2">>
      [] c = "U+04D5" -> <<"U+04D4">> [] c = "U+04D7" -> <<"U+04D6">>
      [] c = "U+04D9" -> <<"U+04D8">> [] c = "U+04DB" -> <<"U+04DA">>
      [] c = "U+04DD" -> <<"U+04DC">> [] c = "U+04DF" -> <<"U+04DE">>
      [] c = "U+04E1" -> <<"U+04E0">> [] c = "U+04E3" -> <<"U+04E2">>
      [] c = "U+04E5" -> <<"U+04E4">> [] c = "U+04E7" -> <<"U+04E6">>
      [] c = "U+04E9" -> <<"U+04E8">> [] c = "U+04EB" -> <<"U+04EA">>
      [] c = "U+04ED" -> <<"U+04EC">> [] c = "U+04EF" -> <<"U+04EE">>
      [] c = "U+04F1" -> <<"U+04F0">> [] c = "U+04F3" -> <<"U+04F2">>
      [] c = "U+04F5" -> <<"U+04F4">> [] c = "U+04F7" -> <<"U+04F6">>
      [] c = "U+04F9" -> <<"U+04F8">> [] c = "U+04FB" -> <<"U+04FA">>
      [] c = "U+04FD" -> <<"U+04FC">> [] c = "U+04FF" -> <<"U+04FE">>
      [] c = "U+0501" -> <<"U+0500">> [] c = "U+0503" -> <<"U+0502">>
      [] c = "U+0505" -> <<"U+0504">> [] c = "U+0507" -> <<"U+0506">>
      [] c = "U+0509" -> <<"U+0508">> [] c = "U+050B" -> <<"U+050A">>
      [] c = "U+050D" -> <<"U+050C">> [] c = "U+050F" -> <<"U+050E">>
      [] c = "U+0511" -> <<"U+0510">> [] c = "U+0513" -> <<"U+0512">>
      [] c = "U+0515" -> <<"U+0514">> [] c = "U+0517" -> <<"U+0516">>
      [] c = "U+0519" -> <<"U+0518">> [] c = "U+051B" -> <<"U+051A">>
      [] c = "U+051D" -> <<"U+051C">> [] c = "U+051F" -> <<"U+051E">>
      [] c = "U+0521" -> <<"U+0520">> [] c = "U+0523" -> <<"U+0522">>
      [] c = "U+0525" -> <<"U+0524">> [] c = "U+0527" -> <<"U+0526">>
      [] c = "U+0529" -> <<"U+0528">> [] c = "U+052B" -> <<"U+052A">>
      [] c = "U+052D" -> <<"U+052C">> [] c = "U+052F" -> <<"U+052E">>
      [] c = "U+0561" -> <<"U+0531">> [] c = "U+0562" -> <<"U+0532">>
      [] c = "U+0563" -> <<"U+0533">> [] c = "U+0564" -> <<"U+0534">>
      [] c = "U+0565" -> <<"U+0535">> [] c = "U+0566" -> <<"U+0536">>
      [] c = "U+0567" -> <<"U+0537">> [] c = "U+0568" -> <<"U+0538">>
      [] c = "U+0569" -> <<"U+0539">> [] c = "U+056A" -> <<"U+053A">>
      [] c = "U+056B" -> <<"U+053B">> [] c = "U+056C" -> <<"U+053C">>
      [] c = "U+056D" -> <<"U+053D">> [] c = "U+056E" -> <<"U+053E">>
      [] c = "U+056F" -> <<"U+053F">> [] c = "U+0570" -> <<"U+0540">>
      [] c = "U+0571" -> <<"U+0541">> [] c = "U+0572" -> <<"U+0542">>
      [] c = "U+0573" -> <<"U+0543">> [] c = "U+0574" -> <<"U+0544">>
      [] c = "U+0575" -> <<"U+0545">> [] c = "U+0576" -> <<"U+0546">>
      [] c = "U+0577" -> <<"U+0547">> [] c = "U+0578" -> <<"U+0548">>
      [] c = "U+0579" -> <<"U+0549">> [] c = "U+057A" -> <<"U+054A">>
      [] c = "U+057B" -> <<"U+054B">> [] c = "U+057C" -> <<"U+054C">>
      [] c = "U+057D" -> <<"U+054D">> [] c = "U+057E" -> <<"U+054E">>
      [] c = "U+057F" -> <<"U+054F">> [] c = "U+0580" -> <<"U+0550">>
      [] c = "U+0581" -> <<"U+0551">> [] c = "U+0582" -> <<"U+0552">>
      [] c = "U+0583" -> <<"U+0553">> [] c = "U+0584" -> <<"U+0554">>
      [] c = "U+0585" -> <<"U+0555">> [] c = "U+0586" -> <<"U+0556">>
      [] c = "U+0587" -> <<"U+0535", "U+0552">>
      [] c = "U+10D0" -> <<"U+1C90">> [] c = "U+10D1" -> <<"U+1C91">>
      [] c = "U+10D2" -> <<"U+1C92">> [] c = "U+10D3" -> <<"U+1C93">>
      [] c = "U+10D4" -> <<"U+1C94">> [] c = "U+10D5" -> <<"U+1C95">>
      [] c = "U+10D6" -> <<"U+1C96">> [] c = "U+10D7" -> <<"U+1C97">>
      [] c = "U+10D8" -> <<"U+1C98">> [] c = "U+10D9" -> <<"U+1C99">>
      [] c = "U+10DA" -> <<"U+1C9A">> [] c = "U+10DB" -> <<"U+1C9B">>
      [] c = "U+10DC" -> <<"U+1C9C">> [] c = "U+10DD" -> <<"U+1C9D">>
      [] c = "U+10DE" -> <<"U+1C9E">> [] c = "U+10DF" -> <<"U+1C9F">>
      [] c = "U+10E0" -> <<"U+1CA0">> [] c = "U+10E1" -> <<"U+1CA1">>
      [] c = "U+10E2" -> <<"U+1CA2">> [] c = "U+10E3" -> <<"U+1CA3">>
      [] c = "U+10E4" -> <<"U+1CA4">> [] c = "U+10E5" -> <<"U+1CA5">>
      [] c = "U+10E6" -> <<"U+1CA6">> [] c = "U+10E7" -> <<"U+1CA7">>
      [] c = "U+10E8" -> <<"U+1CA8">> [] c = "U+10E9" -> <<"U+1CA9">>
      [] c = "U+10EA" -> <<"U+1CAA">> [] c = "U+10EB" -> <<"U+1CAB">>
      [] c = "U+10EC" -> <<"U+1CAC">> [] c = "U+10ED" -> <<"U+1CAD">>
      [] c = "U+10EE" -> <<"U+1CAE">> [] c = "U+10EF" -> <<"U+1CAF">>
      [] c = "U+10F0" -> <<"U+1CB0">> [] c = "U+10F1" -> <<"U+1CB1">>
      [] c = "U+10F2" -> <<"U+1CB2">> [] c = "U+10F3" -> <<"U+1CB3">>
      [] c = "U+10F4" -> <<"U+1CB4">> [] c = "U+10F5" -> <<"U+1CB5">>
      [] c = "U+10F6" -> <<"U+1CB6">> [] c = "U+10F7" -> <<"U+1CB7">>
      [] c = "U+10F8" -> <<"U+1CB8">> [] c = "U+10F9" -> <<"U+1CB9">>
      [] c = "U+10FA" -> <<"U+1CBA">> [] c = "U+10FD" -> <<"U+1CBD">>
      [] c = "U+10FE" -> <<"U+1CBE">> [] c = "U+10FF" -> <<"U+1CBF">>
      [] c = "U+13F8" -> <<"U+13F0">> [] c = "U+13F9" -> <<"U+13F1">>
      [] c = "U+13FA" -> <<"U+13F2">> [] c = "U+13FB" -> <<"U+13F3">>
      [] c = "U+13FC" -> <<"U+13F4">> [] c = "U+13FD" -> <<"U+13F5">>
      [] c = "U+1C80" -> <<"U+0412">> [] c = "U+1C81" -> <<"U+0414">>
      [] c = "U+1C82" -> <<"U+041E">> [] c = "U+1C83" -> <<"U+0421">>
      [] c = "U+1C84" -> <<"U+0422">> [] c = "U+1C85" -> <<"U+0422">>
      [] c = "U+1C86" -> <<"U+042A">> [] c = "U+1C87" -> <<"U+0462">>
      [] c = "U+1C88" -> <<"U+A64A">> [] c = "U+1D79" -> <<"U+A77D">>
      [] c = "U+1D7D" -> <<"U+2C63">> [] c = "U+1D8E" -> <<"U+A7C6">>
      [] c = "U+1E01" -> <<"U+1E00">> [] c = "U+1E03" -> <<"U+1E02">>
      [] c = "U+1E05" -> <<"U+1E04">> [] c = "U+1E07" -> <<"U+1E06">>
      [] c = "U+1E09" -> <<"U+1E08">> [] c = "U+1E0B" -> <<"U+1E0A">>
      [] c = "U+1E0D" -> <<"U+1E0C">> [] c = "U+1E0F" -> <<"U+1E0E">>
      [] c = "U+1E11" -> <<"U+1E10">> [] c = "U+1E13" -> <<"U+1E12">>
      [] c = "U+1E15" -> <<"U+1E14">> [] c = "U+1E17" -> <<"U+1E16">>
      [] c = "U+1E19" -> <<"U+1E18">> [] c = "U+1E1B" -> <<"U+1E1A">>
      [] c = "U+1E1D" -> <<"U+1E1C">> [] c = "U+1E1F" -> <<"U+1E1E">>
      [] c = "U+1E21" -> <<"U+1E20">> [] c = "U+1E23" -> <<"U+1E22">>
      [] c = "U+1E25" -> <<"U+1E24">> [] c = "U+1E27" -> <<"U+1E26">>
      [] c = "U+1E29" -> <<"U+1E28">> [] c = "U+1E2B" -> <<"U+1E2A">>
      [] c = "U+1E2D" -> <<"U+1E2C">> [] c = "U+1E2F" -> <<"U+1E2E">>
      [] c = "U+1E31" -> <<"U+1E30">> [] c = "U+1E33" -> <<"U+1E32">>
      [] c = "U+1E35" -> <<"U+1E34">> [] c = "U+1E37" -> <<"U+1E36">>
      [] c = "U+1E39" -> <<"U+1E38">> [] c = "U+1E3B" -> <<"U+1E3A">>
      [] c = "U+1E3D" -> <<"U+1E3C">> [] c = "U+1E3F" -> <<"U+1E3E">>
      [] c = "U+1E41" -> <<"U+1E40">> [] c = "U+1E43" -> <<"U+1E42">>
      [] c = "U+1E45" -> <<"U+1E44">> [] c = "U+1E47" -> <<"U+1E46">>
      [] c = "U+1E49" -> <<"U+1E48">> [] c = "U+1E4B" -> <<"U+1E4A">>
      [] c = "U+1E4D" -> <<"U+1E4C">> [] c = "U+1E4F" -> <<"U+1E4E">>
      [] c = "U+1E51" -> <<"U+1E50">> [] c = "U+1E53" -> <<"U+1E52">>
      [] c = "U+1E55" -> <<"U+1E54">> [] c = "U+1E57" -> <<"U+1E56">>
      [] c = "U+1E59" -> <<"U+1E58">> [] c = "U+1E5B" -> <<"U+1E5A">>
      [] c = "U+1E5D" -> <<"U+1E5C">> [] c = "U+1E5F" -> <<"U+1E5E">>
      [] c = "U+1E61" -> <<"U+1E60">> [] c = "U+1E63" -> <<"U+1E62">>
      [] c = "U+1E65" -> <<"U+1E64">> [] c = "U+1E67" -> <<"U+1E66">>
      [] c = "U+1E69" -> <<"U+1E68">> [] c = "U+1E6B" -> <<"U+1E6A">>
      [] c = "U+1E6D" -> <<"U+1E6C">> [] c = "U+1E6F" -> <<"U+1E6E">>
      [] c = "U+1E71" -> <<"U+1E70">> [] c = "U+1E73" -> <<"U+1E72">>
      [] c = "U+1E75" -> <<"U+1E74">> [] c = "U+1E77" -> <<"U+1E76">>
      [] c = "U+1E79" -> <<"U+1E78">> [] c = "U+1E7B" -> <<"U+1E7A">>
      [] c = "U+1E7D" -> <<"U+1E7C">> [] c = "U+1E7F" -> <<"U+1E7E">>
      [] c = "U+1E81" -> <<"U+1E80">> [] c = "U+1E83" -> <<"U+1E82">>
      [] c = "U+1E85" -> <<"U+1E84">> [] c = "U+1E87" -> <<"U+1E86">>
      [] c = "U+1E89" -> <<"U+1E88">> [] c = "U+1E8B" -> <<"U+1E8A">>
      [] c = "U+1E8D" -> <<"U+1E8C">> [] c = "U+1E8F" -> <<"U+1E8E">>
      [] c = "U+1E91" -> <<"U+1E90">> [] c = "U+1E93" -> <<"U+1E92">>
      [] c = "U+1E95" -> <<"U+1E94">> [] c = "U+1E96" -> <<"H", "U+0331">>
      [] c = "U+1E97" -> <<"T", "U+0308">>
      [] c = "U+1E98" -> <<"W", "U+030A">>
      [] c = "U+1E99" -> <<"Y", "U+030A">>
      [] c = "U+1E9A" -> <<"A", "U+02BE">> [] c = "U+1E9B" -> <<"U+1E60">>
      [] c = "U+1EA1" -> <<"U+1EA0">> [] c = "U+1EA3" -> <<"U+1EA2">>
      [] c = "U+1EA5" -> <<"U+1EA4">> [] c = "U+1EA7" -> <<"U+1EA6">>
      [] c = "U+1EA9" -> <<"U+1EA8">> [] c = "U+1EAB" -> <<"U+1EAA">>
      [] c = "U+1EAD" -> <<"U+1EAC">> [] c = "U+1EAF" -> <<"U+1EAE">>
      [] c = "U+1EB1" -> <<"U+1EB0">> [] c = "U+1EB3" -> <<"U+1EB2">>
      [] c = "U+1EB5" -> <<"U+1EB4">> [] c = "U+1EB7" -> <<"U+1EB6">>
      [] c = "U+1EB9" -> <<"U+1EB8">> [] c = "U+1EBB" -> <<"U+1EBA">>
      [] c = "U+1EBD" -> <<"U+1EBC">> [] c = "U+1EBF" -> <<"U+1EBE">>
      [] c = "U+1EC1" -> <<"U+1EC0">> [] c = "U+1EC3" -> <<"U+1EC2">>
      [] c = "U+1EC5" -> <<"U+1EC4">> [] c = "U+1EC7" -> <<"U+1EC6">>
      [] c = "U+1EC9" -> <<"U+1EC8">> [] c = "U+1ECB" -> <<"U+1ECA">>
      [] c = "U+1ECD" -> <<"U+1ECC">> [] c = "U+1ECF" -> <<"U+1ECE">>
      [] c = "U+1ED1" -> <<"U+1ED0">> [] c = "U+1ED3" -> <<"U+1ED2">>
      [] c = "U+1ED5" -> <<"U+1ED4">> [] c = "U+1ED7" -> <<"U+1ED6">>
      [] c = "U+1ED9" -> <<"U+1ED8">> [] c = "U+1EDB" -> <<"U+1EDA">>
      [] c = "U+1EDD" -> <<"U+1EDC">> [] c = "U+1EDF" -> <<"U+1EDE">>
      [] c = "U+1EE1" -> <<"U+1EE0">> [] c = "U+1EE3" -> <<"U+1EE2">>
      [] c = "U+1EE5" -> <<"U+1EE4">> [] c = "U+1EE7" -> <<"U+1EE6">>
      [] c = "U+1EE9" -> <<"U+1EE8">> [] c = "U+1EEB" -> <<"U+1EEA">>
      [] c = "U+1EED" -> <<"U+1EEC">> [] c = "U+1EEF" -> <<"U+1EEE">>
      [] c = "U+1EF1" -> <<"U+1EF0">> [] c = "U+1EF3" -> <<"U+1EF2">>
      [] c = "U+1EF5" -> <<"U+1EF4">> [] c = "U+1EF7" -> <<"U+1EF6">>
      [] c = "U+1EF9" -> <<"U+1EF8">> [] c = "U+1EFB" -> <<"U+1EFA">>
      [] c = "U+1EFD" -> <<"U+1EFC">> [] c = "U+1EFF" -> <<"U+1EFE">>
      [] c = "U+1F00" -> <<"U+1F08">> [] c = "U+1F01" -> <<"U+1F09">>
      [] c = "U+1F02" -> <<"U+1F0A">> [] c = "U+1F03" -> <<"U+1F0B">>
      [] c = "U+1F04" -> <<"U+1F0C">> [] c = "U+1F05" -> <<"U+1F0D">>
      [] c = "U+1F06" -> <<"U+1F0E">> [] c = "U+1F07" -> <<"U+1F0F">>
      [] c = "U+1F10" -> <<"U+1F18">> [] c = "U+1F11" -> <<"U+1F19">>
      [] c = "U+1F12" -> <<"U+1F1A">> [] c = "U+1F13" -> <<"U+1F1B">>
      [] c = "U+1F14" -> <<"U+1F1C">> [] c = "U+1F15" -> <<"U+1F1D">>
      [] c = "U+1F20" -> <<"U+1F28">> [] c = "U+1F21" -> <<"U+1F29">>
      [] c = "U+1F22" -> <<"U+1F2A">> [] c = "U+1F23" -> <<"U+1F2B">>
      [] c = "U+1F24" -> <<"U+1F2C">> [] c = "U+1F25" -> <<"U+1F2D">>
      [] c = "U+1F26" -> <<"U+1F2E">> [] c = "U+1F27" -> <<"U+1F2F">>
      [] c = "U+1F30" -> <<"U+1F38">> [] c = "U+1F31" -> <<"U+1F39">>
      [] c = "U+1F32" -> <<"U+1F3A">> [] c = "U+1F33" -> <<"U+1F3B">>
      [] c = "U+1F34" -> <<"U+1F3C">> [] c = "U+1F35" -> <<"U+1F3D">>
      [] c = "U+1F36" -> <<"U+1F3E">> [] c = "U+1F37" -> <<"U+1F3F">>
      [] c = "U+1F40" -> <<"U+1F48">> [] c = "U+1F41" -> <<"U+1F49">>
      [] c = "U+1F42" -> <<"U+1F4A">> [] c = "U+1F43" -> <<"U+1F4B">>
      [] c = "U+1F44" -> <<"U+1F4C">> [] c = "U+1F45" -> <<"U+1F4D">>
      [] c = "U+1F50" -> <<"U+03A5", "U+0313">>
      [] c = "U+1F51" -> <<"U+1F59">>
      [] c = "U+1F52" -> <<"U+03A5", "U+0313", "U+0300">>
      [] c = "U+1F53" -> <<"U+1F5B">>
      [] c = "U+1F54" -> <<"U+03A5", "U+0313", "U+0301">>
      [] c = "U+1F55" -> <<"U+1F5D">>
      [] c = "U+1F56" -> <<"U+03A5", "U+0313", "U+0342">>
      [] c = "U+1F57" -> <<"U+1F5F">> [] c = "U+1F60" -> <<"U+1F68">>
      [] c = "U+1F61" -> <<"U+1F69">> [] c = "U+1F62" -> <<"U+1F6A">>
      [] c = "U+1F63" -> <<"U+1F6B">> [] c = "U+1F64" -> <<"U+1F6C">>
      [] c = "U+1F65" -> <<"U+1F6D">> [] c = "U+1F66" -> <<"U+1F6E">>
      [] c = "U+1F67" -> <<"U+1F6F">> [] c = "U+1F70" -> <<"U+1FBA">>
      [] c = "U+1F71" -> <<"U+1FBB">> [] c = "U+1F72" -> <<"U+1FC8">>
      [] c = "U+1F73" -> <<"U+1FC9">> [] c = "U+1F74" -> <<"U+1FCA">>
      [] c = "U+1F75" -> <<"U+1FCB">> [] c = "U+1F76" -> <<"U+1FDA">>
      [] c = "U+1F77" -> <<"U+1FDB">> [] c = "U+1F78" -> <<"U+1FF8">>
      [] c = "U+1F79" -> <<"U+1FF9">> [] c = "U+1F7A" -> <<"U+1FEA">>
      [] c = "U+1F7B" -> <<"U+1FEB">> [] c = "U+1F7C" -> <<"U+1FFA">>
      [] c = "U+1F7D" -> <<"U+1FFB">>
      [] c = "U+1F80" -> <<"U+1F08", "U+0399">>
      [] c = "U+1F81" -> <<"U+1F09", "U+0399">>
      [] c = "U+1F82" -> <<"U+1F0A", "U+0399">>
      [] c = "U+1F83" -> <<"U+1F0B", "U+0399">>
      [] c = "U+1F84" -> <<"U+1F0C", "U+0399">>
      [] c = "U+1F85" -> <<"U+1F0D", "U+0399">>
      [] c = "U+1F86" -> <<"U+1F0E", "U+0399">>
      [] c = "U+1F87" -> <<"U+1F0F", "U+0399">>
      [] c = "U+1F88" -> <<"U+1F08", "U+0399">>
      [] c = "U+1F89" -> <<"U+1F09", "U+0399">>
      [] c = "U+1F8A" -> <<"U+1F0A", "U+0399">>
      [] c = "U+1F8B" -> <<"U+1F0B", "U+0399">>
      [] c = "U+1F8C" -> <<"U+1F0C", "U+0399">>
      [] c = "U+1F8D" -> <<"U+1F0D", "U+0399">>
      [] c = "U+1F8E" -> <<"U+1F0E", "U+0399">>
      [] c = "U+1F8F" -> <<"U+1F0F", "U+0399">>
      [] c = "U+1F90" -> <<"U+1F28", "U+0399">>
      [] c = "U+1F91" -> <<"U+1F29", "U+0399">>
      [] c = "U+1F92" -> <<"U+1F2A", "U+0399">>
      [] c = "U+1F93" -> <<"U+1F2B", "U+0399">>
      [] c = "U+1F94" -> <<"U+1F2C", "U+0399">>
      [] c = "U+1F95" -> <<"U+1F2D", "U+0399">>
      [] c = "U+1F96" -> <<"U+1F2E", "U+0399">>
      [] c = "U+1F97" -> <<"U+1F2F", "U+0399">>
      [] c = "U+1F98" -> <<"U+1F28", "U+0399">>
      [] c = "U+1F99" -> <<"U+1F29", "U+0399">>
      [] c = "U+1F9A" -> <<"U+1F2A", "U+0399">>
      [] c = "U+1F9B" -> <<"U+1F2B", "U+0399">>
      [] c = "U+1F9C" -> <<"U+1F2C", "U+0399">>
      [] c = "U+1F9D" -> <<"U+1F2D", "U+0399">>
      [] c = "U+1F9E" -> <<"U+1F2E", "U+0399">>
      [] c = "U+1F9F" -> <<"U+1F2F", "U+0399">>
      [] c = "U+1FA0" -> <<"U+1F68", "U+0399">>
      [] c = "U+1FA1" -> <<"U+1F69", "U+0399">>
      [] c = "U+1FA2" -> <<"U+1F6A", "U+0399">>
      [] c = "U+1FA3" -> <<"U+1F6B", "U+0399">>
      [] c = "U+1FA4" -> <<"U+1F6C", "U+0399">>
      [] c = "U+1FA5" -> <<"U+1F6D", "U+0399">>
      [] c = "U+1FA6" -> <<"U+1F6E", "U+0399">>
      [] c = "U+1FA7" -> <<"U+1F6F", "U+0399">>
      [] c = "U+1FA8" -> <<"U+1F68", "U+0399">>
      [] c = "U+1FA9" -> <<"U+1F69", "U+0399">>
      [] c = "U+1FAA" -> <<"U+1F6A", "U+0399">>
      [] c = "U+1FAB" -> <<"U+1F6B", "U+0399">>
      [] c = "U+1FAC" -> <<"U+1F6C", "U+0399">>
      [] c = "U+1FAD" -> <<"U+1F6D", "U+0399">>
      [] c = "U+1FAE" -> <<"U+1F6E", "U+0399">>
      [] c = "U+1FAF" -> <<"U+1F6F", "U+0399">>
      [] c = "U+1FB0" -> <<"U+1FB8">> [] c = "U+1FB1" -> <<"U+1FB9">>
      [] c = "U+1FB2" -> <<"U+1FBA", "U+0399">>
      [] c = "U+1FB3" -> <<"U+0391", "U+0399">>
      [] c = "U+1FB4" -> <<"U+0386", "U+0399">>
      [] c = "U+1FB6" -> <<"U+0391", "U+0342">>
      [] c = "U+1FB7" -> <<"U+0391", "U+0342", "U+0399">>
      [] c = "U+1FBC" -> <<"U+0391", "U+0399">>
      [] c = "U+1FBE" -> <<"U+0399">>
      [] c = "U+1FC2" -> <<"U+1FCA", "U+0399">>
      [] c = "U+1FC3" -> <<"U+0397", "U+0399">>
      [] c = "U+1FC4" -> <<"U+0389", "U+0399">>
      [] c = "U+1FC6" -> <<"U+0397", "U+0342">>
      [] c = "U+1FC7" -> <<"U+0397", "U+0342", "U+0399">>
      [] c = "U+1FCC" -> <<"U+0397", "U+0399">>
      [] c = "U+1FD0" -> <<"U+1FD8">> [] c = "U+1FD1" -> <<"U+1FD9">>
      [] c = "U+1FD2" -> <<"U+0399", "U+0308", "U+0300">>
      [] c = "U+1FD3" -> <<"U+0399", "U+0308", "U+0301">>
      [] c = "U+1FD6" -> <<"U+0399", "U+0342">>
      [] c = "U+1FD7" -> <<"U+0399", "U+0308", "U+0342">>
      [] c = "U+1FE0" -> <<"U+1FE8">> [] c = "U+1FE1" -> <<"U+1FE9">>
      [] c = "U+1FE2" -> <<"U+03A5", "U+0308", "U+0300">>
      [] c = "U+1FE3" -> <<"U+03A5", "U+0308", "U+0301">>
      [] c = "U+1FE4" -> <<"U+03A1", "U+0313">>
      [] c = "U+1FE5" -> <<"U+1FEC">>
      [] c = "U+1FE6" -> <<"U+03A5", "U+0342">>
      [] c = "U+1FE7" -> <<"U+03A5", "U+0308", "U+0342">>
      [] c = "U+1FF2" -> <<"U+1FFA", "U+0399">>
      [] c = "U+1FF3" -> <<"U+03A9", "U+0399">>
      [] c = "U+1FF4" -> <<"U+038F", "U+0399">>
      [] c = "U+1FF6" -> <<"U+03A9", "U+0342">>
      [] c = "U+1FF7" -> <<"U+03A9", "U+0342", "U+0399">>
      [] c = "U+1FFC" -> <<"U+03A9", "U+0399">>
      [] c = "U+214E" -> <<"U+2132">> [] c = "U+2170" -> <<"U+2160">>
      [] c = "U+2171" -> <<"U+2161">> [] c = "U+2172" -> <<"U+2162">>
      [] c = "U+2173" -> <<"U+2163">> [] c = "U+2174" -> <<"U+2164">>
      [] c = "U+2175" -> <<"U+2165">> [] c = "U+2176" -> <<"U+2166">>
      [] c = "U+2177" -> <<"U+2167">> [] c = "U+2178" -> <<"U+2168">>
      [] c = "U+2179" -> <<"U+2169">> [] c = "U+217A" -> <<"U+216A">>
      [] c = "U+217B" -> <<"U+216B">> [] c = "U+217C" -> <<"U+216C">>
      [] c = "U+217D" -> <<"U+216D">> [] c = "U+217E" -> <<"U+216E">>
      [] c = "U+217F" -> <<"U+216F">> [] c = "U+2184" -> <<"U+2183">>
      [] c = "U+24D0" -> <<"U+24B6">> [] c = "U+24D1" -> <<"U+24B7">>
      [] c = "U+24D2" -> <<"U+24B8">> [] c = "U+24D3" -> <<"U+24B9">>
      [] c = "U+24D4" -> <<"U+24BA">> [] c = "U+24D5" -> <<"U+24BB">>
      [] c = "U+24D6" -> <<"U+24BC">> [] c = "U+24D7" -> <<"U+24BD">>
      [] c = "U+24D8" -> <<"U+24BE">> [] c = "U+24D9" -> <<"U+24BF">>
      [] c = "U+24DA" -> <<"U+24C0">> [] c = "U+24DB" -> <<"U+24C1">>
      [] c = "U+24DC" -> <<"U+24C2">> [] c = "U+24DD" -> <<"U+24C3">>
      [] c = "U+24DE" -> <<"U+24C4">> [] c = "U+24DF" -> <<"U+24C5">>
      [] c = "U+24E0" -> <<"U+24C6">> [] c = "U+24E1" -> <<"U+24C7">>
      [] c = "U+24E2" -> <<"U+24C8">> [] c = "U+24E3" -> <<"U+24C9">>
      [] c = "U+24E4" -> <<"U+24CA">> [] c = "U+24E5" -> <<"U+24CB">>
      [] c = "U+24E6" -> <<"U+24CC">> [] c = "U+24E7" -> <<"U+24CD">>
      [] c = "U+24E8" -> <<"U+24CE">> [] c = "U+24E9" -> <<"U+24CF">>
      [] c = "U+2C30" -> <<"U+2C00">> [] c = "U+2C31" -> <<"U+2C01">>
      [] c = "U+2C32" -> <<"U+2C02">> [] c = "U+2C33" -> <<"U+2C03">>
      [] c = "U+2C34" -> <<"U+2C04">> [] c = "U+2C35" -> <<"U+2C05">>
      [] c = "U+2C36" -> <<"U+2C06">> [] c = "U+2C37" -> <<"U+2C07">>
      [] c = "U+2C38" -> <<"U+2C08">> [] c = "U+2C39" -> <<"U+2C09">>
      [] c = "U+2C3A" -> <<"U+2C0A">> [] c = "U+2C3B" -> <<"U+2C0B">>
      [] c = "U+2C3C" -> <<"U+2C0C">> [] c = "U+2C3D" -> <<"U+2C0D">>
      [] c = "U+2C3E" -> <<"U+2C0E">> [] c = "U+2C3F" -> <<"U+2C0F">>
      [] c = "U+2C40" -> <<"U+2C10">> [] c = "U+2C41" -> <<"U+2C11">>
      [] c = "U+2C42" -> <<"U+2C12">> [] c = "U+2C43" -> <<"U+2C13">>
      [] c = "U+2C44" -> <<"U+2C14">> [] c = "U+2C45" -> <<"U+2C15">>
      [] c = "U+2C46" -> <<"U+2C16">> [] c = "U+2C47" -> <<"U+2C17">>
      [] c = "U+2C48" -> <<"U+2C18">> [] c = "U+2C49" -> <<"U+2C19">>
      [] c = "U+2C4A" -> <<"U+2C1A">> [] c = "U+2C4B" -> <<"U+2C1B">>
      [] c = "U+2C4C" -> <<"U+2C1C">> [] c = "U+2C4D" -> <<"U+2C1D">>
      [] c = "U+2C4E" -> <<"U+2C1E">> [] c = "U+2C4F" -> <<"U+2C1F">>
      [] c = "U+2C50" -> <<"U+2C20">> [] c = "U+2C51" -> <<"U+2C21">>
      [] c = "U+2C52" -> <<"U+2C22">> [] c = "U+2C53" -> <<"U+2C23">>
      [] c = "U+2C54" -> <<"U+2C24">> [] c = "U+2C55" -> <<"U+2C25">>
      [] c = "U+2C56" -> <<"U+2C26">> [] c = "U+2C57" -> <<"U+2C27">>
      [] c = "U+2C58" -> <<"U+2C28">> [] c = "U+2C59" -> <<"U+2C29">>
      [] c = "U+2C5A" -> <<"U+2C2A">> [] c = "U+2C5B" -> <<"U+2C2B">>
      [] c = "U+2C5C" -> <<"U+2C2C">> [] c = "U+2C5D" -> <<"U+2C2D">>
      [] c = "U+2C5E" -> <<"U+2C2E">> [] c = "U+2C5F" -> <<"U+2C2F">>
      [] c = "U+2C61" -> <<"U+2C60">> [] c = "U+2C65" -> <<"U+023A">>
      [] c = "U+2C66" -> <<"U+023E">> [] c = "U+2C68" -> <<"U+2C67">>
      [] c = "U+2C6A" -> <<"U+2C69">> [] c = "U+2C6C" -> <<"U+2C6B">>
      [] c = "U+2C73" -> <<"U+2C72">> [] c = "U+2C76" -> <<"U+2C75">>
      [] c = "U+2C81" -> <<"U+2C80">> [] c = "U+2C83" -> <<"U+2C82">>
      [] c = "U+2C85" -> <<"U+2C84">> [] c = "U+2C87" -> <<"U+2C86">>
      [] c = "U+2C89" -> <<"U+2C88">> [] c = "U+2C8B" -> <<"U+2C8A">>
      [] c = "U+2C8D" -> <<"U+2C8C">> [] c = "U+2C8F" -> <<"U+2C8E">>
      [] c = "U+2C91" -> <<"U+2C90">> [] c = "U+2C93" -> <<"U+2C92">>
      [] c = "U+2C95" -> <<"U+2C94">> [] c = "U+2C97" -> <<"U+2C96">>
      [] c = "U+2C99" -> <<"U+2C98">> [] c = "U+2C9B" -> <<"U+2C9A">>
      [] c = "U+2C9D" -> <<"U+2C9C">> [] c = "U+2C9F" -> <<"U+2C9E">>
      [] c = "U+2CA1" -> <<"U+2CA0">> [] c = "U+2CA3" -> <<"U+2CA2">>
      [] c = "U+2CA5" -> <<"U+2CA4">> [] c = "U+2CA7" -> <<"U+2CA6">>
      [] c = "U+2CA9" -> <<"U+2CA8">> [] c = "U+2CAB" -> <<"U+2CAA">>
      [] c = "U+2CAD" -> <<"U+2CAC">> [] c = "U+2CAF" -> <<"U+2CAE">>
      [] c = "U+2CB1" -> <<"U+2CB0">> [] c = "U+2CB3" -> <<"U+2CB2">>
      [] c = "U+2CB5" -> <<"U+2CB4">> [] c = "U+2CB7" -> <<"U+2CB6">>
      [] c = "U+2CB9" -> <<"U+2CB8">> [] c = "U+2CBB" -> <<"U+2CBA">>
      [] c = "U+2CBD" -> <<"U+2CBC">> [] c = "U+2CBF" -> <<"U+2CBE">>
      [] c = "U+2CC1" -> <<"U+2CC0">> [] c = "U+2CC3" -> <<"U+2CC2">>
      [] c = "U+2CC5" -> <<"U+2CC4">> [] c = "U+2CC7" -> <<"U+2CC6">>
      [] c = "U+2CC9" -> <<"U+2CC8">> [] c = "U+2CCB" -> <<"U+2CCA">>
      [] c = "U+2CCD" -> <<"U+2CCC">> [] c = "U+2CCF" -> <<"U+2CCE">>
      [] c = "U+2CD1" -> <<"U+2CD0">> [] c = "U+2CD3" -> <<"U+2CD2">>
      [] c = "U+2CD5" -> <<"U+2CD4">> [] c = "U+2CD7" -> <<"U+2CD6">>
      [] c = "U+2CD9" -> <<"U+2CD8">> [] c = "U+2CDB" -> <<"U+2CDA">>
      [] c = "U+2CDD" -> <<"U+2CDC">> [] c = "U+2CDF" -> <<"U+2CDE">>
      [] c = "U+2CE1" -> <<"U+2CE0">> [] c = "U+2CE3" -> <<"U+2CE2">>
      [] c = "U+2CEC" -> <<"U+2CEB">> [] c = "U+2CEE" -> <<"U+2CED">>
      [] c = "U+2CF3" -> <<"U+2CF2">> [] c = "U+2D00" -> <<"U+10A0">>
      [] c = "U+2D01" -> <<"U+10A1">> [] c = "U+2D02" -> <<"U+10A2">>
      [] c = "U+2D03" -> <<"U+10A3">> [] c = "U+2D04" -> <<"U+10A4">>
      [] c = "U+2D05" -> <<"U+10A5">> [] c = "U+2D06" -> <<"U+10A6">>
      [] c = "U+2D07" -> <<"U+10A7">> [] c = "U+2D08" -> <<"U+10A8">>
      [] c = "U+2D09" -> <<"U+10A9">> [] c = "U+2D0A" -> <<"U+10AA">>
      [] c = "U+2D0B" -> <<"U+10AB">> [] c = "U+2D0C" -> <<"U+10AC">>
      [] c = "U+2D0D" -> <<"U+10AD">> [] c = "U+2D0E" -> <<"U+10AE">>
      [] c = "U+2D0F" -> <<"U+10AF">> [] c = "U+2D10" -> <<"U+10B0">>
      [] c = "U+2D11" -> <<"U+10B1">> [] c = "U+2D12" -> <<"U+10B2">>
      [] c = "U+2D13" -> <<"U+10B3">> [] c = "U+2D14" -> <<"U+10B4">>
      [] c = "U+2D15" -> <<"U+10B5">> [] c = "U+2D16" -> <<"U+10B6">>
      [] c = "U+2D17" -> <<"U+10B7">> [] c = "U+2D18" -> <<"U+10B8">>
      [] c = "U+2D19" -> <<"U+10B9">> [] c = "U+2D1A" -> <<"U+10BA">>
      [] c = "U+2D1B" -> <<"U+10BB">> [] c = "U+2D1C" -> <<"U+10BC">>
      [] c = "U+2D1D" -> <<"U+10BD">> [] c = "U+2D1E" -> <<"U+10BE">>
      [] c = "U+2D1F" -> <<"U+10BF">> [] c = "U+2D20" -> <<"U+10C0">>
      [] c = "U+2D21" -> <<"U+10C1">> [] c = "U+2D22" -> <<"U+10C2">>
      [] c = "U+2D23" -> <<"U+10C3">> [] c = "U+2D24" -> <<"U+10C4">>
      [] c = "U+2D25" -> <<"U+10C5">> [] c = "U+2D27" -> <<"U+10C7">>
      [] c = "U+2D2D" -> <<"U+10CD">> [] c = "U+A641" -> <<"U+A640">>
      [] c = "U+A643" -> <<"U+A642">> [] c = "U+A645" -> <<"U+A644">>
      [] c = "U+A647" -> <<"U+A646">> [] c = "U+A649" -> <<"U+A648">>
      [] c = "U+A64B" -> <<"U+A64A">> [] c = "U+A64D" -> <<"U+A64C">>
      [] c = "U+A64F" -> <<"U+A64E">> [] c = "U+A651" -> <<"U+A650">>
      [] c = "U+A653" -> <<"U+A652">> [] c = "U+A655" -> <<"U+A654">>
      [] c = "U+A657" -> <<"U+A656">> [] c = "U+A659" -> <<"U+A658">>
      [] c = "U+A65B" -> <<"U+A65A">> [] c = "U+A65D" -> <<"U+A65C">>
      [] c = "U+A65F" -> <<"U+A65E">> [] c = "U+A661" -> <<"U+A660">>
      [] c = "U+A663" -> <<"U+A662">> [] c = "U+A665" -> <<"U+A664">>
      [] c = "U+A667" -> <<"U+A666">> [] c = "U+A669" -> <<"U+A668">>
      [] c = "U+A66B" -> <<"U+A66A">> [] c = "U+A66D" -> <<"U+A66C">>
      [] c = "U+A681" -> <<"U+A680">> [] c = "U+A683" -> <<"U+A682">>
      [] c = "U+A685" -> <<"U+A684">> [] c = "U+A687" -> <<"U+A686">>
      [] c = "U+A689" -> <<"U+A688">> [] c = "U+A68B" -> <<"U+A68A">>
      [] c = "U+A68D" -> <<"U+A68C">> [] c = "U+A68F" -> <<"U+A68E">>
      [] c = "U+A691" -> <<"U+A690">> [] c = "U+A693" -> <<"U+A692">>
      [] c = "U+A695" -> <<"U+A694">> [] c = "U+A697" -> <<"U+A696">>
      [] c = "U+A699" -> <<"U+A698">> [] c = "U+A69B" -> <<"U+A69A">>
      [] c = "U+A723" -> <<"U+A722">> [] c = "U+A725" -> <<"U+A724">>
      [] c = "U+A727" -> <<"U+A726">> [] c = "U+A729" -> <<"U+A728">>
      [] c = "U+A72B" -> <<"U+A72A">> [] c = "U+A72D" -> <<"U+A72C">>
      [] c = "U+A72F" -> <<"U+A72E">> [] c = "U+A733" -> <<"U+A732">>
      [] c = "U+A735" -> <<"U+A734">> [] c = "U+A737" -> <<"U+A736">>
      [] c = "U+A739" -> <<"U+A738">> [] c = "U+A73B" -> <<"U+A73A">>
      [] c = "U+A73D" -> <<"U+A73C">> [] c = "U+A73F" -> <<"U+A73E">>
      [] c = "U+A741" -> <<"U+A740">> [] c = "U+A743" -> <<"U+A742">>
      [] c = "U+A745" -> <<"U+A744">> [] c = "U+A747" -> <<"U+A746">>
      [] c = "U+A749" -> <<"U+A748">> [] c = "U+A74B" -> <<"U+A74A">>
      [] c = "U+A74D" -> <<"U+A74C">> [] c = "U+A74F" -> <<"U+A74E">>
      [] c = "U+A751" -> <<"U+A750">> [] c = "U+A753" -> <<"U+A752">>
      [] c = "U+A755" -> <<"U+A754">> [] c = "U+A757" -> <<"U+A756">>
      [] c = "U+A759" -> <<"U+A758">> [] c = "U+A75B" -> <<"U+A75A">>
      [] c = "U+A75D" -> <<"U+A75C">> [] c = "U+A75F" -> <<"U+A75E">>
      [] c = "U+A761" -> <<"U+A760">> [] c = "U+A763" -> <<"U+A762">>
      [] c = "U+A765" -> <<"U+A764">> [] c = "U+A767" -> <<"U+A766">>
      [] c = "U+A769" -> <<"U+A768">> [] c = "U+A76B" -> <<"U+A76A">>
      [] c = "U+A76D" -> <<"U+A76C">> [] c = "U+A76F" -> <<"U+A76E">>
      [] c = "U+A77A" -> <<"U+A779">> [] c = "U+A77C" -> <<"U+A77B">>
      [] c = "U+A77F" -> <<"U+A77E">> [] c = "U+A781" -> <<"U+A780">>
      [] c = "U+A783" -> <<"U+A782">> [] c = "U+A785" -> <<"U+A784">>
      [] c = "U+A787" -> <<"U+A786">> [] c = "U+A78C" -> <<"U+A78B">>
      [] c = "U+A791" -> <<"U+A790">> [] c = "U+A793" -> <<"U+A792">>
      [] c = "U+A794" -> <<"U+A7C4">> [] c = "U+A797" -> <<"U+A796">>
      [] c = "U+A799" -> <<"U+A798">> [] c = "U+A79B" -> <<"U+A79A">>
      [] c = "U+A79D" -> <<"U+A79C">> [] c = "U+A79F" -> <<"U+A79E">>
      [] c = "U+A7A1" -> <<"U+A7A0">> [] c = "U+A7A3" -> <<"U+A7A2">>
      [] c = "U+A7A5" -> <<"U+A7A4">> [] c = "U+A7A7" -> <<"U+A7A6">>
      [] c = "U+A7A9" -> <<"U+A7A8">> [] c = "U+A7B5" -> <<"U+A7B4">>
      [] c = "U+A7B7" -> <<"U+A7B6">> [] c = "U+A7B9" -> <<"U+A7B8">>
      [] c = "U+A7BB" -> <<"U+A7BA">> [] c = "U+A7BD" -> <<"U+A7BC">>
      [] c = "U+A7BF" -> <<"U+A7BE">> [] c = "U+A7C1" -> <<"U+A7C0">>
      [] c = "U+A7C3" -> <<"U+A7C2">> [] c = "U+A7C8" -> <<"U+A7C7">>
      [] c = "U+A7CA" -> <<"U+A7C9">> [] c = "U+A7D1" -> <<"U+A7D0">>
      [] c = "U+A7D7" -> <<"U+A7D6">> [] c = "U+A7D9" -> <<"U+A7D8">>
      [] c = "U+A7F6" -> <<"U+A7F5">> [] c = "U+AB53" -> <<"U+A7B3">>
      [] c = "U+AB70" -> <<"U+13A0">> [] c = "U+AB71" -> <<"U+13A1">>
      [] c = "U+AB72" -> <<"U+13A2">> [] c = "U+AB73" -> <<"U+13A3">>
      [] c = "U+AB74" -> <<"U+13A4">> [] c = "U+AB75" -> <<"U+13A5">>
      [] c = "U+AB76" -> <<"U+13A6">> [] c = "U+AB77" -> <<"U+13A7">>
      [] c = "U+AB78" -> <<"U+13A8">> [] c = "U+AB79" -> <<"U+13A9">>
      [] c = "U+AB7A" -> <<"U+13AA">> [] c = "U+AB7B" -> <<"U+13AB">>
      [] c = "U+AB7C" -> <<"U+13AC">> [] c = "U+AB7D" -> <<"U+13AD">>
      [] c = "U+AB7E" -> <<"U+13AE">> [] c = "U+AB7F" -> <<"U+13AF">>
      [] c = "U+AB80" -> <<"U+13B0">> [] c = "U+AB81" -> <<"U+13B1">>
      [] c = "U+AB82" -> <<"U+13B2">> [] c = "U+AB83" -> <<"U+13B3">>
      [] c = "U+AB84" -> <<"U+13B4">> [] c = "U+AB85" -> <<"U+13B5">>
      [] c = "U+AB86" -> <<"U+13B6">> [] c = "U+AB87" -> <<"U+13B7">>
      [] c = "U+AB88" -> <<"U+13B8">> [] c = "U+AB89" -> <<"U+13B9">>
      [] c = "U+AB8A" -> <<"U+13BA">> [] c = "U+AB8B" -> <<"U+13BB">>
      [] c = "U+AB8C" -> <<"U+13BC">> [] c = "U+AB8D" -> <<"U+13BD">>
      [] c = "U+AB8E" -> <<"U+13BE">> [] c = "U+AB8F" -> <<"U+13BF">>
      [] c = "U+AB90" -> <<"U+13C0">> [] c = "U+AB91" -> <<"U+13C1">>
      [] c = "U+AB92" -> <<"U+13C2">> [] c = "U+AB93" -> <<"U+13C3">>
      [] c = "U+AB94" -> <<"U+13C4">> [] c = "U+AB95" -> <<"U+13C5">>
      [] c = "U+AB96" -> <<"U+13C6">> [] c = "U+AB97" -> <<"U+13C7">>
      [] c = "U+AB98" -> <<"U+13C8">> [] c = "U+AB99" -> <<"U+13C9">>
      [] c = "U+AB9A" -> <<"U+13CA">> [] c = "U+AB9B" -> <<"U+13CB">>
      [] c = "U+AB9C" -> <<"U+13CC">> [] c = "U+AB9D" -> <<"U+13CD">>
      [] c = "U+AB9E" -> <<"U+13CE">> [] c = "U+AB9F" -> <<"U+13CF">>
      [] c = "U+ABA0" -> <<"U+13D0">> [] c = "U+ABA1" -> <<"U+13D1">>
      [] c = "U+ABA2" -> <<"U+13D2">> [] c = "U+ABA3" -> <<"U+13D3">>
      [] c = "U+ABA4" -> <<"U+13D4">> [] c = "U+ABA5" -> <<"U+13D5">>
      [] c = "U+ABA6" -> <<"U+13D6">> [] c = "U+ABA7" -> <<"U+13D7">>
      [] c = "U+ABA8" -> <<"U+13D8">> [] c = "U+ABA9" -> <<"U+13D9">>
      [] c = "U+ABAA" -> <<"U+13DA">> [] c = "U+ABAB" -> <<"U+13DB">>
      [] c = "U+ABAC" -> <<"U+13DC">> [] c = "U+ABAD" -> <<"U+13DD">>
      [] c = "U+ABAE" -> <<"U+13DE">> [] c = "U+ABAF" -> <<"U+13DF">>
      [] c = "U+ABB0" -> <<"U+13E0">> [] c = "U+ABB1" -> <<"U+13E1">>
      [] c = "U+ABB2" -> <<"U+13E2">> [] c = "U+ABB3" -> <<"U+13E3">>
      [] c = "U+ABB4" -> <<"U+13E4">> [] c = "U+ABB5" -> <<"U+13E5">>
      [] c = "U+ABB6" -> <<"U+13E6">> [] c = "U+ABB7" -> <<"U+13E7">>
      [] c = "U+ABB8" -> <<"U+13E8">> [] c = "U+ABB9" -> <<"U+13E9">>
      [] c = "U+ABBA" -> <<"U+13EA">> [] c = "U+ABBB" -> <<"U+13EB">>
      [] c = "U+ABBC" -> <<"U+13EC">> [] c = "U+ABBD" -> <<"U+13ED">>
      [] c = "U+ABBE" -> <<"U+13EE">> [] c = "U+ABBF" -> <<"U+13EF">>
      [] c = "U+FB00" -> <<"F", "F">> [] c = "U+FB01" -> <<"F", "I">>
      [] c = "U+FB02" -> <<"F", "L">> [] c = "U+FB03" -> <<"F", "F", "I">>
      [] c = "U+FB04" -> <<"F", "F", "L">> [] c = "U+FB05" -> <<"S", "T">>
      [] c = "U+FB06" -> <<"S", "T">>
      [] c = "U+FB13" -> <<"U+0544", "U+0546">>
      [] c = "U+FB14" -> <<"U+0544", "U+0535">>
      [] c = "U+FB15" -> <<"U+0544", "U+053B">>
      [] c = "U+FB16" -> <<"U+054E", "U+0546">>
      [] c = "U+FB17" -> <<"U+0544", "U+053D">>
      [] c = "U+FF41" -> <<"U+FF21">> [] c = "U+FF42" -> <<"U+FF22">>
      [] c = "U+FF43" -> <<"U+FF23">> [] c = "U+FF44" -> <<"U+FF24">>
      [] c = "U+FF45" -> <<"U+FF25">> [] c = "U+FF46" -> <<"U+FF26">>
      [] c = "U+FF47" -> <<"U+FF27">> [] c = "U+FF48" -> <<"U+FF28">>
      [] c = "U+FF49" -> <<"U+FF29">> [] c = "U+FF4A" -> <<"U+FF2A">>
      [] c = "U+FF4B" -> <<"U+FF2B">> [] c = "U+FF4C" -> <<"U+FF2C">>
      [] c = "U+FF4D" -> <<"U+FF2D">> [] c = "U+FF4E" -> <<"U+FF2E">>
      [] c = "U+FF4F" -> <<"U+FF2F">> [] c = "U+FF50" -> <<"U+FF30">>
      [] c = "U+FF51" -> <<"U+FF31">> [] c = "U+FF52" -> <<"U+FF32">>
      [] c = "U+FF53" -> <<"U+FF33">> [] c = "U+FF54" -> <<"U+FF34">>
      [] c = "U+FF55" -> <<"U+FF35">> [] c = "U+FF56" -> <<"U+FF36">>
      [] c = "U+FF57" -> <<"U+FF37">> [] c = "U+FF58" -> <<"U+FF38">>
      [] c = "U+FF59" -> <<"U+FF39">> [] c = "U+FF5A" -> <<"U+FF3A">>
      [] c = "U+10428" -> <<"U+10400">> [] c = "U+10429" -> <<"U+10401">>
      [] c = "U+1042A" -> <<"U+10402">> [] c = "U+1042B" -> <<"U+10403">>
      [] c = "U+1042C" -> <<"U+10404">> [] c = "U+1042D" -> <<"U+10405">>
      [] c = "U+1042E" -> <<"U+10406">> [] c = "U+1042F" -> <<"U+10407">>
      [] c = "U+10430" -> <<"U+10408">> [] c = "U+10431" -> <<"U+10409">>
      [] c = "U+10432" -> <<"U+1040A">> [] c = "U+10433" -> <<"U+1040B">>
      [] c = "U+10434" -> <<"U+1040C">> [] c = "U+10435" -> <<"U+1040D">>
      [] c = "U+10436" -> <<"U+1040E">> [] c = "U+10437" -> <<"U+1040F">>
      [] c = "U+10438" -> <<"U+10410">> [] c = "U+10439" -> <<"U+10411">>
      [] c = "U+1043A" -> <<"U+10412">> [] c = "U+1043B" -> <<"U+10413">>
      [] c = "U+1043C" -> <<"U+10414">> [] c = "U+1043D" -> <<"U+10415">>
      [] c = "U+1043E" -> <<"U+10416">> [] c = "U+1043F" -> <<"U+10417">>
      [] c = "U+10440" -> <<"U+10418">> [] c = "U+10441" -> <<"U+10419">>
      [] c = "U+10442" -> <<"U+1041A">> [] c = "U+10443" -> <<"U+1041B">>
      [] c = "U+10444" -> <<"U+1041C">> [] c = "U+10445" -> <<"U+1041D">>
      [] c = "U+10446" -> <<"U+1041E">> [] c = "U+10447" -> <<"U+1041F">>
      [] c = "U+10448" -> <<"U+10420">> [] c = "U+10449" -> <<"U+10421">>
      [] c = "U+1044A" -> <<"U+10422">> [] c = "U+1044B" -> <<"U+10423">>
      [] c = "U+1044C" -> <<"U+10424">> [] c = "U+1044D" -> <<"U+10425">>
      [] c = "U+1044E" -> <<"U+10426">> [] c = "U+1044F" -> <<"U+10427">>
      [] c = "U+104D8" -> <<"U+104B0">> [] c = "U+104D9" -> <<"U+104B1">>
      [] c = "U+104DA" -> <<"U+104B2">> [] c = "U+104DB" -> <<"U+104B3">>
      [] c = "U+104DC" -> <<"U+104B4">> [] c = "U+104DD" -> <<"U+104B5">>
      [] c = "U+104DE" -> <<"U+104B6">> [] c = "U+104DF" -> <<"U+104B7">>
      [] c = "U+104E0" -> <<"U+104B8">> [] c = "U+104E1" -> <<"U+104B9">>
      [] c = "U+104E2" -> <<"U+104BA">> [] c = "U+104E3" -> <<"U+104BB">>
      [] c = "U+104E4" -> <<"U+104BC">> [] c = "U+104E5" -> <<"U+104BD">>
      [] c = "U+104E6" -> <<"U+104BE">> [] c = "U+104E7" -> <<"U+104BF">>
      [] c = "U+104E8" -> <<"U+104C0">> [] c = "U+104E9" -> <<"U+104C1">>
      [] c = "U+104EA" -> <<"U+104C2">> [] c = "U+104EB" -> <<"U+104C3">>
      [] c = "U+104EC" -> <<"U+104C4">> [] c = "U+104ED" -> <<"U+104C5">>
      [] c = "U+104EE" -> <<"U+104C6">> [] c = "U+104EF" -> <<"U+104C7">>
      [] c = "U+104F0" -> <<"U+104C8">> [] c = "U+104F1" -> <<"U+104C9">>
      [] c = "U+104F2" -> <<"U+104CA">> [] c = "U+104F3" -> <<"U+104CB">>
      [] c = "U+104F4" -> <<"U+104CC">> [] c = "U+104F5" -> <<"U+104CD">>
      [] c = "U+104F6" -> <<"U+104CE">> [] c = "U+104F7" -> <<"U+104CF">>
      [] c = "U+104F8" -> <<"U+104D0">> [] c = "U+104F9" -> <<"U+104D1">>
      [] c = "U+104FA" -> <<"U+104D2">> [] c = "U+104FB" -> <<"U+104D3">>
      [] c = "U+10597" -> <<"U+10570">> [] c = "U+10598" -> <<"U+10571">>
      [] c = "U+10599" -> <<"U+10572">> [] c = "U+1059A" -> <<"U+10573">>
      [] c = "U+1059B" -> <<"U+10574">> [] c = "U+1059C" -> <<"U+10575">>
      [] c = "U+1059D" -> <<"U+10576">> [] c = "U+1059E" -> <<"U+10577">>
      [] c = "U+1059F" -> <<"U+10578">> [] c = "U+105A0" -> <<"U+10579">>
      [] c = "U+105A1" -> <<"U+1057A">> [] c = "U+105A3" -> <<"U+1057C">>
      [] c = "U+105A4" -> <<"U+1057D">> [] c = "U+105A5" -> <<"U+1057E">>
      [] c = "U+105A6" -> <<"U+1057F">> [] c = "U+105A7" -> <<"U+10580">>
      [] c = "U+105A8" -> <<"U+10581">> [] c = "U+105A9" -> <<"U+10582">>
      [] c = "U+105AA" -> <<"U+10583">> [] c = "U+105AB" -> <<"U+10584">>
      [] c = "U+105AC" -> <<"U+10585">> [] c = "U+105AD" -> <<"U+10586">>
      [] c = "U+105AE" -> <<"U+10587">> [] c = "U+105AF" -> <<"U+10588">>
      [] c = "U+105B0" -> <<"U+10589">> [] c = "U+105B1" -> <<"U+1058A">>
      [] c = "U+105B3" -> <<"U+1058C">> [] c = "U+105B4" -> <<"U+1058D">>
      [] c = "U+105B5" -> <<"U+1058E">> [] c = "U+105B6" -> <<"U+1058F">>
      [] c = "U+105B7" -> <<"U+10590">> [] c = "U+105B8" -> <<"U+10591">>
      [] c = "U+105B9" -> <<"U+10592">> [] c = "U+105BB" -> <<"U+10594">>
      [] c = "U+105BC" -> <<"U+10595">> [] c = "U+10CC0" -> <<"U+10C80">>
      [] c = "U+10CC1" -> <<"U+10C81">> [] c = "U+10CC2" -> <<"U+10C82">>
      [] c = "U+10CC3" -> <<"U+10C83">> [] c = "U+10CC4" -> <<"U+10C84">>
      [] c = "U+10CC5" -> <<"U+10C85">> [] c = "U+10CC6" -> <<"U+10C86">>
      [] c = "U+10CC7" -> <<"U+10C87">> [] c = "U+10CC8" -> <<"U+10C88">>
      [] c = "U+10CC9" -> <<"U+10C89">> [] c = "U+10CCA" -> <<"U+10C8A">>
      [] c = "U+10CCB" -> <<"U+10C8B">> [] c = "U+10CCC" -> <<"U+10C8C">>
      [] c = "U+10CCD" -> <<"U+10C8D">> [] c = "U+10CCE" -> <<"U+10C8E">>
      [] c = "U+10CCF" -> <<"U+10C8F">> [] c = "U+10CD0" -> <<"U+10C90">>
      [] c = "U+10CD1" -> <<"U+10C91">> [] c = "U+10CD2" -> <<"U+10C92">>
      [] c = "U+10CD3" -> <<"U+10C93">> [] c = "U+10CD4" -> <<"U+10C94">>
      [] c = "U+10CD5" -> <<"U+10C95">> [] c = "U+10CD6" -> <<"U+10C96">>
      [] c = "U+10CD7" -> <<"U+10C97">> [] c = "U+10CD8" -> <<"U+10C98">>
      [] c = "U+10CD9" -> <<"U+10C99">> [] c = "U+10CDA" -> <<"U+10C9A">>
      [] c = "U+10CDB" -> <<"U+10C9B">> [] c = "U+10CDC" -> <<"U+10C9C">>
      [] c = "U+10CDD" -> <<"U+10C9D">> [] c = "U+10CDE" -> <<"U+10C9E">>
      [] c = "U+10CDF" -> <<"U+10C9F">> [] c = "U+10CE0" -> <<"U+10CA0">>
      [] c = "U+10CE1" -> <<"U+10CA1">> [] c = "U+10CE2" -> <<"U+10CA2">>
      [] c = "U+10CE3" -> <<"U+10CA3">> [] c = "U+10CE4" -> <<"U+10CA4">>
      [] c = "U+10CE5" -> <<"U+10CA5">> [] c = "U+10CE6" -> <<"U+10CA6">>
      [] c = "U+10CE7" -> <<"U+10CA7">> [] c = "U+10CE8" -> <<"U+10CA8">>
      [] c = "U+10CE9" -> <<"U+10CA9">> [] c = "U+10CEA" -> <<"U+10CAA">>
      [] c = "U+10CEB" -> <<"U+10CAB">> [] c = "U+10CEC" -> <<"U+10CAC">>
      [] c = "U+10CED" -> <<"U+10CAD">> [] c = "U+10CEE" -> <<"U+10CAE">>
      [] c = "U+10CEF" -> <<"U+10CAF">> [] c = "U+10CF0" -> <<"U+10CB0">>
      [] c = "U+10CF1" -> <<"U+10CB1">> [] c = "U+10CF2" -> <<"U+10CB2">>
      [] c = "U+118C0" -> <<"U+118A0">> [] c = "U+118C1" -> <<"U+118A1">>
      [] c = "U+118C2" -> <<"U+118A2">> [] c = "U+118C3" -> <<"U+118A3">>
      [] c = "U+118C4" -> <<"U+118A4">> [] c = "U+118C5" -> <<"U+118A5">>
      [] c = "U+118C6" -> <<"U+118A6">> [] c = "U+118C7" -> <<"U+118A7">>
      [] c = "U+118C8" -> <<"U+118A8">> [] c = "U+118C9" -> <<"U+118A9">>
      [] c = "U+118CA" -> <<"U+118AA">> [] c = "U+118CB" -> <<"U+118AB">>
      [] c = "U+118CC" -> <<"U+118AC">> [] c = "U+118CD" -> <<"U+118AD">>
      [] c = "U+118CE" -> <<"U+118AE">> [] c = "U+118CF" -> <<"U+118AF">>
      [] c = "U+118D0" -> <<"U+118B0">> [] c = "U+118D1" -> <<"U+118B1">>
      [] c = "U+118D2" -> <<"U+118B2">> [] c = "U+118D3" -> <<"U+118B3">>
      [] c = "U+118D4" -> <<"U+118B4">> [] c = "U+118D5" -> <<"U+118B5">>
      [] c = "U+118D6" -> <<"U+118B6">> [] c = "U+118D7" -> <<"U+118B7">>
      [] c = "U+118D8" -> <<"U+118B8">> [] c = "U+118D9" -> <<"U+118B9">>
      [] c = "U+118DA" -> <<"U+118BA">> [] c = "U+118DB" -> <<"U+118BB">>
      [] c = "U+118DC" -> <<"U+118BC">> [] c = "U+118DD" -> <<"U+118BD">>
      [] c = "U+118DE" -> <<"U+118BE">> [] c = "U+118DF" -> <<"U+118BF">>
      [] c = "U+16E60" -> <<"U+16E40">> [] c = "U+16E61" -> <<"U+16E41">>
      [] c = "U+16E62" -> <<"U+16E42">> [] c = "U+16E63" -> <<"U+16E43">>
      [] c = "U+16E64" -> <<"U+16E44">> [] c = "U+16E65" -> <<"U+16E45">>
      [] c = "U+16E66" -> <<"U+16E46">> [] c = "U+16E67" -> <<"U+16E47">>
      [] c = "U+16E68" -> <<"U+16E48">> [] c = "U+16E69" -> <<"U+16E49">>
      [] c = "U+16E6A" -> <<"U+16E4A">> [] c = "U+16E6B" -> <<"U+16E4B">>
      [] c = "U+16E6C" -> <<"U+16E4C">> [] c = "U+16E6D" -> <<"U+16E4D">>
      [] c = "U+16E6E" -> <<"U+16E4E">> [] c = "U+16E6F" -> <<"U+16E4F">>
      [] c = "U+16E70" -> <<"U+16E50">> [] c = "U+16E71" -> <<"U+16E51">>
      [] c = "U+16E72" -> <<"U+16E52">> [] c = "U+16E73" -> <<"U+16E53">>
      [] c = "U+16E74" -> <<"U+16E54">> [] c = "U+16E75" -> <<"U+16E55">>
      [] c = "U+16E76" -> <<"U+16E56">> [] c = "U+16E77" -> <<"U+16E57">>
      [] c = "U+16E78" -> <<"U+16E58">> [] c = "U+16E79" -> <<"U+16E59">>
      [] c = "U+16E7A" -> <<"U+16E5A">> [] c = "U+16E7B" -> <<"U+16E5B">>
      [] c = "U+16E7C" -> <<"U+16E5C">> [] c = "U+16E7D" -> <<"U+16E5D">>
      [] c = "U+16E7E" -> <<"U+16E5E">> [] c = "U+16E7F" -> <<"U+16E5F">>
      [] c = "U+1E922" -> <<"U+1E900">> [] c = "U+1E923" -> <<"U+1E901">>
      [] c = "U+1E924" -> <<"U+1E902">> [] c = "U+1E925" -> <<"U+1E903">>
      [] c = "U+1E926" -> <<"U+1E904">> [] c = "U+1E927" -> <<"U+1E905">>
      [] c = "U+1E928" -> <<"U+1E906">> [] c = "U+1E929" -> <<"U+1E907">>
      [] c = "U+1E92A" -> <<"U+1E908">> [] c = "U+1E92B" -> <<"U+1E909">>
      [] c = "U+1E92C" -> <<"U+1E90A">> [] c = "U+1E92D" -> <<"U+1E90B">>
      [] c = "U+1E92E" -> <<"U+1E90C">> [] c = "U+1E92F" -> <<"U+1E90D">>
      [] c = "U+1E930" -> <<"U+1E90E">> [] c = "U+1E931" -> <<"U+1E90F">>
      [] c = "U+1E932" -> <<"U+1E910">> [] c = "U+1E933" -> <<"U+1E911">>
      [] c = "U+1E934" -> <<"U+1E912">> [] c = "U+1E935" -> <<"U+1E913">>
      [] c = "U+1E936" -> <<"U+1E914">> [] c = "U+1E937" -> <<"U+1E915">>
      [] c = "U+1E938" -> <<"U+1E916">> [] c = "U+1E939" -> <<"U+1E917">>
      [] c = "U+1E93A" -> <<"U+1E918">> [] c = "U+1E93B" -> <<"U+1E919">>
      [] c = "U+1E93C" -> <<"U+1E91A">> [] c = "U+1E93D" -> <<"U+1E91B">>
      [] c = "U+1E93E" -> <<"U+1E91C">> [] c = "U+1E93F" -> <<"U+1E91D">>
      [] c = "U+1E940" -> <<"U+1E91E">> [] c = "U+1E941" -> <<"U+1E91F">>
      [] c = "U+1E942" -> <<"U+1E920">> [] c = "U+1E943" -> <<"U+1E921">>
      \* letters cased since Unicode 16 and 17
      [] c = "U+019B" -> <<"U+A7DC">> [] c = "U+0264" -> <<"U+A7CB">>
      [] c = "U+1C8A" -> <<"U+1C89">> [] c = "U+A7CD" -> <<"U+A7CC">>
      [] c = "U+A7CF" -> <<"U+A7CE">> [] c = "U+A7D3" -> <<"U+A7D2">>
      [] c = "U+A7D5" -> <<"U+A7D4">> [] c = "U+A7DB" -> <<"U+A7DA">>
      [] c = "U+10D70" -> <<"U+10D50">> [] c = "U+10D71" -> <<"U+10D51">>
      [] c = "U+10D72" -> <<"U+10D52">> [] c = "U+10D73" -> <<"U+10D53">>
      [] c = "U+10D74" -> <<"U+10D54">> [] c = "U+10D75" -> <<"U+10D55">>
      [] c = "U+10D76" -> <<"U+10D56">> [] c = "U+10D77" -> <<"U+10D57">>
      [] c = "U+10D78" -> <<"U+10D58">> [] c = "U+10D79" -> <<"U+10D59">>
      [] c = "U+10D7A" -> <<"U+10D5A">> [] c = "U+10D7B" -> <<"U+10D5B">>
      [] c = "U+10D7C" -> <<"U+10D5C">> [] c = "U+10D7D" -> <<"U+10D5D">>
      [] c = "U+10D7E" -> <<"U+10D5E">> [] c = "U+10D7F" -> <<"U+10D5F">>
      [] c = "U+10D80" -> <<"U+10D60">> [] c = "U+10D81" -> <<"U+10D61">>
      [] c = "U+10D82" -> <<"U+10D62">> [] c = "U+10D83" -> <<"U+10D63">>
      [] c = "U+10D84" -> <<"U+10D64">> [] c = "U+10D85" -> <<"U+10D65">>
      [] c = "U+16EBB" -> <<"U+16EA0">> [] c = "U+16EBC" -> <<"U+16EA1">>
      [] c = "U+16EBD" -> <<"U+16EA2">> [] c = "U+16EBE" -> <<"U+16EA3">>
      [] c = "U+16EBF" -> <<"U+16EA4">> [] c = "U+16EC0" -> <<"U+16EA5">>
      [] c = "U+16EC1" -> <<"U+16EA6">> [] c = "U+16EC2" -> <<"U+16EA7">>
      [] c = "U+16EC3" -> <<"U+16EA8">> [] c = "U+16EC4" -> <<"U+16EA9">>
      [] c = "U+16EC5" -> <<"U+16EAA">> [] c = "U+16EC6" -> <<"U+16EAB">>
      [] c = "U+16EC7" -> <<"U+16EAC">> [] c = "U+16EC8" -> <<"U+16EAD">>
      [] c = "U+16EC9" -> <<"U+16EAE">> [] c = "U+16ECA" -> <<"U+16EAF">>
      [] c = "U+16ECB" -> <<"U+16EB0">> [] c = "U+16ECC" -> <<"U+16EB1">>
      [] c = "U+16ECD" -> <<"U+16EB2">> [] c = "U+16ECE" -> <<"U+16EB3">>
      [] c = "U+16ECF" -> <<"U+16EB4">> [] c = "U+16ED0" -> <<"U+16EB5">>
      [] c = "U+16ED1" -> <<"U+16EB6">> [] c = "U+16ED2" -> <<"U+16EB7">>
      [] c = "U+16ED3" -> <<"U+16EB8">>
      [] OTHER -> <<c>>

\* String.prototype.toUpperCase of one character
UpperChar(c) ==
    IF \E k \in 1..Len(LowerCase) : LowerCase[k] = c
    THEN <<UpperCase[CHOOSE k \in 1..Len(LowerCase) : LowerCase[k] = c]>>
    ELSE IF Len(c) = 1 THEN <<c>>
    ELSE UpperSpecial(c)

\* String.prototype.toUpperCase
RECURSIVE toUpperCase(_)
toUpperCase(s) ==
    IF s = <<>> THEN <<>> ELSE UpperChar(Head(s)) \o toUpperCase(Tail(s))

\* String.prototype.trim
RECURSIVE trim(_)
trim(s) ==
    IF s = <<>> THEN <<>>
    ELSE IF s[1] \in Whitespace THEN trim(Tail(s))
    ELSE IF s[Len(s)] \in Whitespace THEN trim(SubSeq(s, 1, Len(s) - 1))
    ELSE s

\* String.prototype.split with a one-character separator
RECURSIVE split(_, _)
split(s, sep) ==
    IF \E k \in 1..Len(s) : s[k] = sep
    THEN LET k == CHOOSE k \in 1..Len(s) :
                     s[k] = sep /\ \A m \in 1..(k - 1) : s[m] # sep
         IN  <<SubSeq(s, 1, k - 1)>> \o split(SubSeq(s, k + 1, Len(s)), sep)
    ELSE <<s>>

\* String.prototype.includes
includes(s, searchString) ==
    \E k \in 0..(Len(s) - Len(searchString)) :
        SubSeq(s, k + 1, k + Len(searchString)) = searchString

IsDigit(c) == \E k \in 1..Len(Digits) : Digits[k] = c

DigitValue(c) == (CHOOSE k \in 1..Len(Digits) : Digits[k] = c) - 1

\* the longest prefix of s made of decimal digits
RECURSIVE DigitPrefix(_)
DigitPrefix(s) ==
    IF s # <<>> /\ IsDigit(s[1]) THEN <<s[1]>> \o DigitPrefix(Tail(s)) ELSE <<>>

RECURSIVE DecimalValue(_)
DecimalValue(ds) ==
    IF ds = <<>> THEN 0
    ELSE 10 * DecimalValue(SubSeq(ds, 1, Len(ds) - 1)) + DigitValue(ds[Len(ds)])

RECURSIVE SkipLeadingSpace(_)
SkipLeadingSpace(s) ==
    IF s # <<>> /\ s[1] \in Whitespace THEN SkipLeadingSpace(Tail(s)) ELSE s

\* parseInt(s, 10): leading white space, an optional sign, then the longest
\* run of digits; NaN when there is no digit.
parseInt(s) ==
    LET t    == SkipLeadingSpace(s)
        neg  == t # <<>> /\ t[1] = "-"
        body == IF t # <<>> /\ t[1] \in {"-", "+"} THEN Tail(t) ELSE t
        ds   == DigitPrefix(body)
    IN  IF ds = <<>> THEN [nan |-> TRUE, value |-> 0]
        ELSE [nan |-> FALSE,
              value |-> IF neg THEN 0 - DecimalValue(ds) ELSE DecimalValue(ds)]

(***************************************************************************)
(* Core data.                                                              *)
(***************************************************************************)
pods == << [id |-> "POD-A", capacity |-> 4],
           [id |-> "POD-B", capacity |-> 4],
           [id |-> "POD-C", capacity |-> 4] >>

SIT001 == <<"S", "I", "T", "-", "0", "0", "1">>
SIT045 == <<"S", "I", "T", "-", "0", "4", "5">>
SMC210 == <<"S", "M", "C", "-", "2", "1", "0">>

T0900 == <<"0", "9", ":", "0", "0">>
T1000 == <<"1", "0", ":", "0", "0">>

initialBookings ==
    << [podId |-> "POD-A", time |-> T0900, students |-> <<SIT001, SIT045>>],
       [podId |-> "POD-B", time |-> T1000, students |-> <<SMC210>>] >>

\* the literal 4 of the capacity rule in validateBooking
MaxPerSlot == 4

(***************************************************************************)
(* Utility functions.                                                      *)
(***************************************************************************)
\* mutant: the ids keep their case
RECURSIVE CleanIdsKeepsCase(_)
CleanIdsKeepsCase(rawIds) ==
    IF rawIds = <<>> THEN <<>>
    ELSE LET trimmed == trim(Head(rawIds))
         IN  (IF trimmed # <<>> THEN <<trimmed>> ELSE <<>>)
                 \o CleanIdsKeepsCase(Tail(rawIds))

RECURSIVE CleanIds(_)
CleanIds(rawIds) ==
    IF rawIds = <<>> THEN <<>>
    ELSE LET trimmed == trim(Head(rawIds))
         IN  (IF trimmed # <<>> THEN <<toUpperCase(trimmed)>> ELSE <<>>)
                 \o CleanIds(Tail(rawIds))

parseStudentIds(inputString) ==
    IF inputString = <<>> \/ trim(inputString) = <<>>
    THEN <<>>
    ELSE CleanIds(split(inputString, ","))

isWithinOperatingHours(timeString) ==
    IF timeString = <<>> \/ trim(timeString) = <<>> THEN FALSE
    ELSE LET timeParts == split(timeString, ":")
         IN  IF Len(timeParts) # 2 THEN FALSE
             ELSE LET hour   == parseInt(timeParts[1])
                      minute == parseInt(timeParts[2])
                  IN  IF hour.nan \/ minute.nan
                         \/ hour.value < 0 \/ hour.value > 23
                         \/ minute.value < 0 \/ minute.value > 59
                      THEN FALSE
                      ELSE hour.value >= 8 /\ hour.value < 20

\* index (from 1) of the first booking of the slot, 0 for null
findBooking(bks, podId, timeString) ==
    IF \E i \in 1..Len(bks) : bks[i].podId = podId /\ bks[i].time = timeString
    THEN CHOOSE i \in 1..Len(bks) :
             /\ bks[i].podId = podId /\ bks[i].time = timeString
             /\ \A k \in 1..(i - 1) :
                    ~(bks[k].podId = podId /\ bks[k].time = timeString)
    ELSE 0

\* mutant: the time of the other booking is not compared
hasCrossPodClashAnyTime(bks, studentId, timeString, excludePodId) ==
    \E i \in 1..Len(bks) :
        /\ bks[i].podId # excludePodId
        /\ \E j \in 1..Len(bks[i].students) : bks[i].students[j] = studentId

\* mutant: the pod comparison is inverted
hasCrossPodClashSamePod(bks, studentId, timeString, excludePodId) ==
    \E i \in 1..Len(bks) :
        /\ bks[i].time = timeString
        /\ bks[i].podId = excludePodId
        /\ \E j \in 1..Len(bks[i].students) : bks[i].students[j] = studentId

hasCrossPodClash(bks, studentId, timeString, excludePodId) ==
    \E i \in 1..Len(bks) :
        /\ bks[i].time = timeString
        /\ bks[i].podId # excludePodId
        /\ \E j \in 1..Len(bks[i].students) : bks[i].students[j] = studentId

(***************************************************************************)
(* Messages.  A message is modelled by its kind and the values the code    *)
(* interpolates into its text.                                             *)
(***************************************************************************)
HoursError == [kind |-> "hours"]

EmptyError == [kind |-> "empty"]

CapacityError(current, adding) ==
    [kind |-> "capacity", current |-> current, adding |-> adding,
     maximum |-> 4]

DuplicateError(studentId, podId, timeString) ==
    [kind |-> "duplicate", student |-> studentId, podId |-> podId,
     time |-> timeString]

ClashError(studentId, timeString) ==
    [kind |-> "clash", student |-> studentId, time |-> timeString]

(***************************************************************************)
(* validateBooking.  acc is the pair (errors, duplicateAttempts) that the  *)
(* loop over the incoming students updates.                                *)
(***************************************************************************)
\* mutant: the inner loop stops one student early
DuplicateCheckSkipsLast(acc, bks, existing, podId, timeString, studentId) ==
    IF existing # 0
       /\ \E j \in 1..(Len(bks[existing].students) - 1) :
              bks[existing].students[j] = studentId
    THEN [errors |-> Append(acc.errors,
                            DuplicateError(studentId, podId, timeString)),
          duplicateAttempts |-> acc.duplicateAttempts + 1]
    ELSE acc

\* mutant: the student is looked for in every booking of the time
DuplicateCheckAnyPod(acc, bks, existing, podId, timeString, studentId) ==
    IF \E i \in 1..Len(bks) :
           /\ bks[i].time = timeString
           /\ \E j \in 1..Len(bks[i].students) : bks[i].students[j] = studentId
    THEN [errors |-> Append(acc.errors,
                            DuplicateError(studentId, podId, timeString)),
          duplicateAttempts |-> acc.duplicateAttempts + 1]
    ELSE acc

DuplicateCheck(acc, bks, existing, podId, timeString, studentId) ==
    IF existing # 0
       /\ \E j \in 1..Len(bks[existing].students) :
              bks[existing].students[j] = studentId
    THEN [errors |-> Append(acc.errors,
                            DuplicateError(studentId, podId, timeString)),
          duplicateAttempts |-> acc.duplicateAttempts + 1]
    ELSE acc

\* mutant: the clash is reported but not counted
ClashCheckNotCounted(acc, bks, podId, timeString, studentId) ==
    IF hasCrossPodClash(bks, studentId, timeString, podId)
    THEN [errors |-> Append(acc.errors, ClashError(studentId, timeString)),
          duplicateAttempts |-> acc.duplicateAttempts]
    ELSE acc

ClashCheck(acc, bks, podId, timeString, studentId) ==
    IF hasCrossPodClash(bks, studentId, timeString, podId)
    THEN [errors |-> Append(acc.errors, ClashError(studentId, timeString)),
          duplicateAttempts |-> acc.duplicateAttempts + 1]
    ELSE acc

RECURSIVE ConflictLoop(_, _, _, _, _, _, _)
ConflictLoop(acc, bks, existing, podId, timeString, studentIds, i) ==
    IF i > Len(studentIds) THEN acc
    ELSE ConflictLoop(
             ClashCheck(
                 DuplicateCheck(acc, bks, existing, podId, timeString,
                                studentIds[i]),
                 bks, podId, timeString, studentIds[i]),
             bks, existing, podId, timeString, studentIds, i + 1)

HoursRule(errors, timeString) ==
    IF ~isWithinOperatingHours(timeString)
    THEN Append(errors, HoursError) ELSE errors

\* mutant: the rule is skipped once an earlier rule has failed
RosterRuleShortCircuit(errors, studentIds) ==
    IF errors = <<>> /\ Len(studentIds) = 0
    THEN Append(errors, EmptyError) ELSE errors

RosterRule(errors, studentIds) ==
    IF Len(studentIds) = 0 THEN Append(errors, EmptyError) ELSE errors

\* mutant: only the students already booked are compared with the capacity
CapacityRuleIgnoresIncoming(errors, currentStudents, adding) ==
    IF currentStudents > MaxPerSlot
    THEN Append(errors, CapacityError(currentStudents, adding))
    ELSE errors

\* mutant: a slot filled to exactly the capacity is rejected
CapacityRuleOffByOne(errors, currentStudents, adding) ==
    IF currentStudents + adding >= MaxPerSlot
    THEN Append(errors, CapacityError(currentStudents, adding))
    ELSE errors

CapacityRule(errors, currentStudents, adding) ==
    IF currentStudents + adding > MaxPerSlot
    THEN Append(errors, CapacityError(currentStudents, adding))
    ELSE errors

\* the returned errors and the value of the global counter after the call
validateBooking(bks, dup, podId, timeString, studentIds) ==
    LET existingBooking == findBooking(bks, podId, timeString)
        currentStudents == IF existingBooking # 0
                           THEN Len(bks[existingBooking].students) ELSE 0
        e1 == HoursRule(<<>>, timeString)
        e2 == RosterRule(e1, studentIds)
        e3 == CapacityRule(e2, currentStudents, Len(studentIds))
    IN  ConflictLoop([errors |-> e3, duplicateAttempts |-> dup],
                     bks, existingBooking, podId, timeString, studentIds, 1)

(***************************************************************************)
(* recomputeInsights.                                                      *)
(***************************************************************************)
\* the value of busiestHour when no time has a student
NoBookingsYet == <<"No bookings yet">>

(***************************************************************************)
(* Numbers.  The fill rates are IEEE 754 doubles.  A double x > 0 is the   *)
(* record (hi, mid, lo, exp) of its 53-bit significand, cut into limbs of  *)
(* 20 bits, and the exponent of its lowest bit:                            *)
(*     x = (hi * 2^40 + mid * 2^20 + lo) * 2^exp,  2^12 <= hi < 2^13.      *)
(* Every operation rounds to the nearest double, ties to even.             *)
(***************************************************************************)
Limb == 2^20

Zero == [hi |-> 0, mid |-> 0, lo |-> 0, exp |-> 0]

\* the double nearest to (h * 2^40 + m * 2^20 + l + rest) * 2^e, where the
\* integer has 53 + k bits, k <= 20, and 0 <= rest < 1 is known to be 0 or not
RoundedDouble(h, m, l, e, k, restIsZero) ==
    LET cut     == 2^k
        dropped == l % cut
        l1      == (l \div cut) + (m % cut) * (Limb \div cut)
        m1      == (m \div cut) + (h % cut) * (Limb \div cut)
        h1      == h \div cut
        up      == \/ 2 * dropped > cut
                   \/ 2 * dropped = cut /\ (~restIsZero \/ l1 % 2 = 1)
        l2      == IF up THEN (l1 + 1) % Limb ELSE l1
        m2      == IF up /\ l1 + 1 = Limb THEN (m1 + 1) % Limb ELSE m1
        h2      == IF up /\ l1 + 1 = Limb /\ m1 + 1 = Limb THEN h1 + 1 ELSE h1
    IN  IF h2 = 2^13
        THEN [hi |-> 2^12, mid |-> 0, lo |-> 0, exp |-> e + k + 1]
        ELSE [hi |-> h2, mid |-> m2, lo |-> l2, exp |-> e + k]

\* the double a / b of two integers, 0 <= a < 2^10 and 0 < b < 2^10
Quotient(a, b) ==
    IF a = 0 THEN Zero
    ELSE LET \* a * 2^up / (b * 2^down) lies in [1, 2)
             up   == CHOOSE j \in 0..10 :
                         a * 2^j >= b /\ \A i \in 0..(j - 1) : a * 2^i < b
             down == CHOOSE j \in 0..10 :
                         /\ a < b * 2^(j + 1)
                         /\ \A i \in 0..(j - 1) : a >= b * 2^(i + 1)
             n    == a * 2^up
             d    == b * 2^down
             \* long division of n * 2^53 by d, a limb at a time
             h    == (n * 2^13) \div d
             r1   == (n * 2^13) % d
             m    == (r1 * Limb) \div d
             r2   == (r1 * Limb) % d
             l    == (r2 * Limb) \div d
             r3   == (r2 * Limb) % d
         IN  RoundedDouble(h, m, l, down - up - 53, 1, r3 = 0)

\* the double x * c for a double x and an integer 0 < c < 2^7
Times(x, c) ==
    IF x = Zero THEN Zero
    ELSE LET pl == x.lo * c
             pm == x.mid * c + pl \div Limb
             h  == x.hi * c + pm \div Limb
             k  == CHOOSE j \in 0..7 :
                       h \div 2^j < 2^13 /\ \A i \in 0..(j - 1) : h \div 2^i >= 2^13
         IN  RoundedDouble(h, pm % Limb, pl % Limb, x.exp, k, TRUE)

\* Math.round of a double 0 <= x < 2^12: the nearest integer, halves upwards
MathRound(x) ==
    IF x = Zero \/ x.exp < -53 THEN 0
    ELSE IF x.exp = -53 THEN 1
    ELSE (x.hi \div 2^(0 - x.exp - 40)) + ((x.hi \div 2^(0 - x.exp - 41)) % 2)

\* Math.round(number * 10) / 10
roundToOneDecimal(number) == Quotient(MathRound(Times(number, 10)), 10)

\* the students of all bookings in the order the nested loops visit them
RECURSIVE VisitOrder(_)
VisitOrder(bks) ==
    IF bks = <<>> THEN <<>> ELSE Head(bks).students \o VisitOrder(Tail(bks))

\* mutant: the student is counted without looking at the tracker
TrackStudentAlways(studentTracker, student) ==
    Append(studentTracker, student)

\* one pass of the loop body that fills studentTracker
TrackStudent(studentTracker, student) ==
    IF \E k \in 1..Len(studentTracker) : studentTracker[k] = student
    THEN studentTracker
    ELSE Append(studentTracker, student)

RECURSIVE StudentTracker(_, _)
StudentTracker(students, studentTracker) ==
    IF students = <<>> THEN studentTracker
    ELSE StudentTracker(Tail(students),
                        TrackStudent(studentTracker, Head(students)))

\* hourStudentCounts: its keys in insertion order, each with its count.
\* Every key is a time string with a colon, so that for...in visits the keys
\* in insertion order.
AddToHour(counts, booking) ==
    IF \E k \in 1..Len(counts) : counts[k].hour = booking.time
    THEN [k \in 1..Len(counts) |->
             IF counts[k].hour = booking.time
             THEN [hour |-> counts[k].hour,
                   count |-> counts[k].count + Len(booking.students)]
             ELSE counts[k]]
    ELSE Append(counts, [hour |-> booking.time,
                         count |-> Len(booking.students)])

RECURSIVE HourStudentCounts(_, _)
HourStudentCounts(bks, counts) ==
    IF bks = <<>> THEN counts
    ELSE HourStudentCounts(Tail(bks), AddToHour(counts, Head(bks)))

\* mutant: an hour with as many students as the best so far replaces it
BusiestStepLastWins(best, entry) ==
    IF entry.count >= best.maxStudents
    THEN [maxStudents |-> entry.count, busiestHour |-> entry.hour]
    ELSE best

\* one pass of the loop that looks for the hour with most students
BusiestStep(best, entry) ==
    IF entry.count > best.maxStudents
    THEN [maxStudents |-> entry.count, busiestHour |-> entry.hour]
    ELSE best

RECURSIVE BusiestScan(_, _)
BusiestScan(counts, best) ==
    IF counts = <<>> THEN best
    ELSE BusiestScan(Tail(counts), BusiestStep(best, Head(counts)))

\* one pass of the loop over the bookings for one pod
\* mutant: only the first slot of a pod is counted
PodStepOneSlot(acc, booking, podId) ==
    IF booking.podId = podId
    THEN [totalBookedSeats |-> acc.totalBookedSeats + Len(booking.students),
          uniqueSlots |-> 1,
          slotsUsed |-> acc.slotsUsed \cup {booking.time}]
    ELSE acc

PodStep(acc, booking, podId) ==
    IF booking.podId = podId
    THEN [totalBookedSeats |-> acc.totalBookedSeats + Len(booking.students),
          uniqueSlots |-> IF booking.time \in acc.slotsUsed
                          THEN acc.uniqueSlots ELSE acc.uniqueSlots + 1,
          slotsUsed |-> acc.slotsUsed \cup {booking.time}]
    ELSE acc

RECURSIVE PodScan(_, _, _)
PodScan(bks, acc, podId) ==
    IF bks = <<>> THEN acc
    ELSE PodScan(Tail(bks), PodStep(acc, Head(bks), podId), podId)

\* (booked seats / total possible seats) * 100, 0 when no slot is used
FillRate(totalBookedSeats, totalPossibleSeats) ==
    IF totalPossibleSeats > 0
    THEN Times(Quotient(totalBookedSeats, totalPossibleSeats), 100)
    ELSE Zero

PodFillRate(bks, pod) ==
    LET acc == PodScan(bks, [totalBookedSeats |-> 0, uniqueSlots |-> 0,
                             slotsUsed |-> {}], pod.id)
    IN  [podId |-> pod.id,
         fillRate |-> roundToOneDecimal(
                          FillRate(acc.totalBookedSeats,
                                   pod.capacity * acc.uniqueSlots)),
         slotsUsed |-> acc.uniqueSlots,
         bookedSeats |-> acc.totalBookedSeats]

\* dup is the value of the global counter that the function reads
recomputeInsights(bookingsArray, podsArray, dup) ==
    [totalBookings |-> Len(bookingsArray),
     uniqueStudents |-> Len(StudentTracker(VisitOrder(bookingsArray), <<>>)),
     busiestHour |->
         BusiestScan(HourStudentCounts(bookingsArray, <<>>),
                     [maxStudents |-> 0,
                      busiestHour |-> NoBookingsYet]).busiestHour,
     podFillRates |->
         [i \in 1..Len(podsArray) |-> PodFillRate(bookingsArray, podsArray[i])],
     duplicateAttempts |-> dup]

(***************************************************************************)
(* Event handlers.                                                         *)
(***************************************************************************)
MissingPodError == [kind |-> "missingPod"]

MissingTimeError == [kind |-> "missingTime"]

MissingStudentsError == [kind |-> "missingStudents"]

NoValidIdsError == [kind |-> "noValidIds"]

InRequestDuplicateError(id) == [kind |-> "inRequestDuplicate", student |-> id]

\* the basic input validation of the three form fields
FieldErrors(podId, timeString, studentsInputValue) ==
    IF podId = "" THEN <<MissingPodError>>
    ELSE IF timeString = <<>> THEN <<MissingTimeError>>
    ELSE IF trim(studentsInputValue) = <<>> THEN <<MissingStudentsError>>
    ELSE <<>>

\* the scan for an ID that repeats an earlier ID of the same request
RECURSIVE DuplicateScan(_, _)
DuplicateScan(studentIds, i) ==
    IF i > Len(studentIds) THEN <<>>
    ELSE IF \E j \in 1..(i - 1) : studentIds[j] = studentIds[i]
         THEN <<InRequestDuplicateError(studentIds[i])>>
         ELSE DuplicateScan(studentIds, i + 1)

\* mutant: the scan for in-request duplicates is missing
RequestErrorsNoScan(studentIds) ==
    IF Len(studentIds) = 0 THEN <<NoValidIdsError>> ELSE <<>>

\* the checks on the parsed list that precede validateBooking
RequestErrors(studentIds) ==
    IF Len(studentIds) = 0 THEN <<NoValidIdsError>>
    ELSE DuplicateScan(studentIds, 1)

\* mutant: incoming students and new bookings are put in front
CreateOrMergeInFront(bks, podId, timeString, studentIds) ==
    LET existingBooking == findBooking(bks, podId, timeString)
    IN  IF existingBooking # 0
        THEN [bks EXCEPT ![existingBooking].students = studentIds \o @]
        ELSE <<[podId |-> podId, time |-> timeString,
                students |-> studentIds]>> \o bks

\* mutant: a new booking is pushed even when the slot has one
CreateOrMergeAlwaysCreates(bks, podId, timeString, studentIds) ==
    Append(bks, [podId |-> podId, time |-> timeString,
                 students |-> studentIds])

\* mutant: a new booking is pushed without its students
CreateOrMergeEmptyRoster(bks, podId, timeString, studentIds) ==
    LET existingBooking == findBooking(bks, podId, timeString)
    IN  IF existingBooking # 0
        THEN [bks EXCEPT ![existingBooking].students = @ \o studentIds]
        ELSE Append(bks, [podId |-> podId, time |-> timeString,
                          students |-> <<>>])

\* the store after the create-or-merge step of an accepted submission
CreateOrMerge(bks, podId, timeString, studentIds) ==
    LET existingBooking == findBooking(bks, podId, timeString)
    IN  IF existingBooking # 0
        THEN [bks EXCEPT ![existingBooking].students = @ \o studentIds]
        ELSE Append(bks, [podId |-> podId, time |-> timeString,
                          students |-> studentIds])

\* mutant: the store is mutated before the errors are looked at
ValidationOutcomeEager(bks, validation, podId, timeString, studentIds) ==
    [bookings |-> CreateOrMerge(bks, podId, timeString, studentIds),
     duplicateAttempts |-> validation.duplicateAttempts,
     errorsShown |-> validation.errors,
     rendered |-> Len(validation.errors) = 0]

\* what the handler does with the result of validateBooking
ValidationOutcome(bks, validation, podId, timeString, studentIds) ==
    IF Len(validation.errors) > 0
    THEN [bookings |-> bks,
          duplicateAttempts |-> validation.duplicateAttempts,
          errorsShown |-> validation.errors,
          rendered |-> FALSE]
    ELSE [bookings |-> CreateOrMerge(bks, podId, timeString, studentIds),
          duplicateAttempts |-> validation.duplicateAttempts,
          errorsShown |-> <<>>,
          rendered |-> TRUE]

\* the store, the counter and the visible error text when the handler
\* returns, and whether it went through renderBookingsTable and
\* renderInsights
FormSubmit(bks, dup, podId, timeString, studentsInputValue) ==
    LET fieldErrors   == FieldErrors(podId, timeString, studentsInputValue)
        studentIds    == parseStudentIds(studentsInputValue)
        requestErrors == RequestErrors(studentIds)
    IN  IF fieldErrors # <<>>
        THEN [bookings |-> bks, duplicateAttempts |-> dup,
              errorsShown |-> fieldErrors, rendered |-> FALSE]
        ELSE IF requestErrors # <<>>
        THEN [bookings |-> bks, duplicateAttempts |-> dup,
              errorsShown |-> requestErrors, rendered |-> FALSE]
        ELSE ValidationOutcome(
                 bks,
                 validateBooking(bks, dup, podId, timeString, studentIds),
                 podId, timeString, studentIds)

\* mutant: the first booking is removed whatever the index
SpliceFirst(bks, bookingIndex) ==
    [k \in 1..(Len(bks) - 1) |-> bks[k + 1]]

\* bookings.splice(bookingIndex, 1), bookingIndex counted from 0
Splice(bks, bookingIndex) ==
    [k \in 1..(Len(bks) - 1) |->
        IF k <= bookingIndex THEN bks[k] ELSE bks[k + 1]]

\* mutant: removing a booking resets the counter
RemoveBookingResetsCounter(bks, dup, errs, bookingIndex) ==
    IF bookingIndex >= 0 /\ bookingIndex < Len(bks)
    THEN [bookings |-> Splice(bks, bookingIndex),
          duplicateAttempts |-> 0,
          errorsShown |-> <<>>,
          rendered |-> TRUE]
    ELSE [bookings |-> bks, duplicateAttempts |-> dup, errorsShown |-> errs,
          rendered |-> FALSE]

\* the store, the counter and the visible error text after a click on the
\* remove button that carries bookingIndex, and whether the handler went
\* through renderBookingsTable and renderInsights
RemoveBooking(bks, dup, errs, bookingIndex) ==
    IF bookingIndex >= 0 /\ bookingIndex < Len(bks)
    THEN [bookings |-> Splice(bks, bookingIndex),
          duplicateAttempts |-> dup,
          errorsShown |-> <<>>,
          rendered |-> TRUE]
    ELSE [bookings |-> bks, duplicateAttempts |-> dup, errorsShown |-> errs,
          rendered |-> FALSE]

\* the errors visible after the input listener of the students field has
\* seen the value input: clearMessages when it holds " ," or ", "
StudentInputChange(errs, input) ==
    IF includes(input, <<" ", ",">>) \/ includes(input, <<",", " ">>)
    THEN <<>>
    ELSE errs

(***************************************************************************)
(* Inputs of the handlers.                                                 *)
(***************************************************************************)
T2000 == <<"2", "0", ":", "0", "0">>

\* values of the pod select: the placeholder and two pods of the catalog
PodInputs == {"", "POD-A", "POD-B"}

\* values of the time input
TimeInputs == {<<>>, T0900, T2000}

\* values of the students input
StudentInputs ==
    { <<>>,
      <<",", " ">>,
      <<"a", ",", "b">>,
      <<"\f", "c", "U+00A0">>,
      <<"c", ",", " ", "C">>,
      <<"s", "m", "c", "-", "2", "1", "0">> }

\* student lists passed to a direct call of validateBooking
StudentIdInputs == {parseStudentIds(t) : t \in StudentInputs}

\* data-booking-index values of a click
IndexInputs(bks) == -1..Len(bks)

(***************************************************************************)
(* The state machine of the page: the three event handlers.                *)
(***************************************************************************)
NoCall == [called |-> FALSE]

\* the content of the insights panel after a handler with outcome r, when
\* the panel showed the snapshot shown before
renderInsights(shown, r) ==
    IF r.rendered
    THEN recomputeInsights(r.bookings, pods, r.duplicateAttempts)
    ELSE shown

Init ==
    /\ bookings = initialBookings
    /\ duplicateAttempts = 0
    /\ errorsShown = <<>>
    /\ insightsShown = recomputeInsights(initialBookings, pods, 0)
    /\ returned = NoCall

SubmitWith(podId, timeString, studentsInputValue) ==
    LET r == FormSubmit(bookings, duplicateAttempts, podId, timeString,
                        studentsInputValue)
    IN  /\ r.duplicateAttempts <= MaxDup
        /\ Len(r.bookings) <= MaxBookings
        /\ bookings' = r.bookings
        /\ duplicateAttempts' = r.duplicateAttempts
        /\ errorsShown' = r.errorsShown
        /\ insightsShown' = renderInsights(insightsShown, r)
        /\ returned' = NoCall

handleFormSubmit ==
    \E podId \in PodInputs, timeString \in TimeInputs,
       studentsInputValue \in StudentInputs :
        SubmitWith(podId, timeString, studentsInputValue)

RemoveAt(bookingIndex) ==
    LET r == RemoveBooking(bookings, duplicateAttempts, errorsShown,
                           bookingIndex)
    IN  /\ bookings' = r.bookings
        /\ duplicateAttempts' = r.duplicateAttempts
        /\ errorsShown' = r.errorsShown
        /\ insightsShown' = renderInsights(insightsShown, r)
        /\ returned' = NoCall

handleRemoveBooking ==
    \E bookingIndex \in IndexInputs(bookings) : RemoveAt(bookingIndex)

InputWith(input) ==
    /\ errorsShown' = StudentInputChange(errorsShown, input)
    /\ returned' = NoCall
    /\ UNCHANGED <<bookings, duplicateAttempts, insightsShown>>

handleStudentInputChange ==
    \E input \in StudentInputs : InputWith(input)

Next == handleFormSubmit \/ handleRemoveBooking \/ handleStudentInputChange

Spec == Init /\ [][Next]_vars

(***************************************************************************)
(* Direct calls of validateBooking, from the stores that the handlers      *)
(* reach within SetupSteps steps.                                          *)
(***************************************************************************)
RECURSIVE StoresWithin(_)
StoresWithin(n) ==
    IF n = 0 THEN {initialBookings}
    ELSE LET S == StoresWithin(n - 1)
         IN  S \cup { FormSubmit(b, 0, p, t, s).bookings :
                          b \in S, p \in PodInputs, t \in TimeInputs,
                          s \in StudentInputs }
               \cup UNION { { RemoveBooking(b, 0, <<>>, k).bookings :
                                  k \in IndexInputs(b) } : b \in S }

InitValidate ==
    /\ bookings \in StoresWithin(SetupSteps)
    /\ duplicateAttempts = 0
    /\ errorsShown = <<>>
    /\ insightsShown = recomputeInsights(bookings, pods, 0)
    /\ returned = NoCall

callValidateBooking ==
    \E podId \in PodInputs \ {""}, timeString \in TimeInputs,
       studentIds \in StudentIdInputs :
        LET r == validateBooking(bookings, duplicateAttempts, podId,
                                 timeString, studentIds)
        IN  /\ r.duplicateAttempts <= MaxDup
            /\ duplicateAttempts' = r.duplicateAttempts
            /\ returned' = [called |-> TRUE, podId |-> podId,
                            timeString |-> timeString,
                            studentIds |-> studentIds, errors |-> r.errors]
            /\ UNCHANGED <<bookings, errorsShown, insightsShown>>

NextValidate == callValidateBooking

SpecValidate == InitValidate /\ [][NextValidate]_vars

(***************************************************************************)
(* Direct calls of recomputeInsights(bookings, pods), from the stores that *)
(* the handlers reach within InsightSteps steps when POD-A is booked or a  *)
(* booking is removed.                                                     *)
(***************************************************************************)
InsightSteps == 3

T1100 == <<"1", "1", ":", "0", "0">>

T1200 == <<"1", "2", ":", "0", "0">>

InsightPodInputs == {"POD-A"}

InsightTimeInputs == {T1000, T1100, T1200}

InsightStudentInputs == { <<"a">>, <<"b", ",", "c">> }

RECURSIVE InsightStoresWithin(_)
InsightStoresWithin(n) ==
    IF n = 0 THEN {initialBookings}
    ELSE LET S == InsightStoresWithin(n - 1)
         IN  S \cup { FormSubmit(b, 0, p, t, s).bookings :
                          b \in S, p \in InsightPodInputs,
                          t \in InsightTimeInputs,
                          s \in InsightStudentInputs }
               \cup UNION { { RemoveBooking(b, 0, <<>>, k).bookings :
                                  k \in IndexInputs(b) } : b \in S }

\* Stores with many slots in one pod: POD-A booked minute after minute, one
\* submission each, by two students the first two times and by one student
\* afterwards.
MaxChain == 19

ChainTime(n) == <<"0", "8", ":", Digits[(n \div 10) + 1], Digits[(n % 10) + 1]>>

ChainStudents(n) ==
    IF n < Len(initialBookings) + 2 THEN <<"a", ",", "b">> ELSE <<"a">>

RECURSIVE ChainStoresWithin(_)
ChainStoresWithin(n) ==
    IF n = 0 THEN {initialBookings}
    ELSE LET S == ChainStoresWithin(n - 1)
         IN  S \cup { FormSubmit(b, 0, "POD-A", ChainTime(Len(b)),
                                 ChainStudents(Len(b))).bookings : b \in S }

\* a call that has not been made yet
PendingCall == [called |-> FALSE, pending |-> TRUE]

InitInsights ==
    /\ bookings \in InsightStoresWithin(InsightSteps)
                      \cup ChainStoresWithin(MaxChain)
    /\ duplicateAttempts \in 0..1
    /\ errorsShown = <<>>
    /\ insightsShown = recomputeInsights(bookings, pods, 0)
    /\ returned = PendingCall

callRecomputeInsights ==
    /\ returned = PendingCall
    /\ returned' = [called |-> TRUE,
                    insights |-> recomputeInsights(bookings, pods,
                                                   duplicateAttempts)]
    /\ UNCHANGED <<bookings, duplicateAttempts, errorsShown, insightsShown>>

NextInsights == callRecomputeInsights

SpecInsights == InitInsights /\ [][NextInsights]_vars

(***************************************************************************)
(* Direct calls of isWithinOperatingHours(timeString), for every string of *)
(* at most MaxTimeLen characters of TimeChars.                             *)
(***************************************************************************)
MaxTimeLen == 5

TimeChars == {"0", "1", "2", "8", ":", "x", " ", "\f"}

TimeStrings == UNION { [1..n -> TimeChars] : n \in 0..MaxTimeLen }

InitHours ==
    /\ bookings = initialBookings
    /\ duplicateAttempts = 0
    /\ errorsShown = <<>>
    /\ insightsShown = recomputeInsights(bookings, pods, duplicateAttempts)
    /\ \E t \in TimeStrings : returned = [called |-> FALSE, timeString |-> t]

callIsWithinOperatingHours ==
    /\ ~returned.called
    /\ returned' = [called |-> TRUE, timeString |-> returned.timeString,
                    result |-> isWithinOperatingHours(returned.timeString)]
    /\ UNCHANGED <<bookings, duplicateAttempts, errorsShown, insightsShown>>

NextHours == callIsWithinOperatingHours

SpecHours == InitHours /\ [][NextHours]_vars

(***************************************************************************)
(* Direct calls of parseStudentIds(inputString), for every string of at    *)
(* most MaxParseLen characters of ParseChars and for two other texts.      *)
(***************************************************************************)
MaxParseLen == 6

ParseChars == {"a", "B", ",", " ", "\f"}

\* " sit-1 , SIT-1 ,, b "
LongText ==
    <<" ", "s", "i", "t", "-", "1", " ", ",", " ", "S", "I", "T", "-", "1",
      " ", ",", ",", " ", "b", " ">>

\* a text with letters outside ASCII and a no-break space: e-acute, 1, a
\* comma, sharp s, no-break space
AccentText == <<"U+00E9", "1", ",", "U+00DF", "U+00A0">>

ParseStrings ==
    UNION { [1..n -> ParseChars] : n \in 0..MaxParseLen }
        \cup {LongText, AccentText}

InitParse ==
    /\ bookings = initialBookings
    /\ duplicateAttempts = 0
    /\ errorsShown = <<>>
    /\ insightsShown = recomputeInsights(bookings, pods, duplicateAttempts)
    /\ \E t \in ParseStrings : returned = [called |-> FALSE, inputString |-> t]

callParseStudentIds ==
    /\ ~returned.called
    /\ returned' = [called |-> TRUE, inputString |-> returned.inputString,
                    ids |-> parseStudentIds(returned.inputString)]
    /\ UNCHANGED <<bookings, duplicateAttempts, errorsShown, insightsShown>>

NextParse == callParseStudentIds

SpecParse == InitParse /\ [][NextParse]_vars

(***************************************************************************)
(* Vocabulary of the properties.                                           *)
(***************************************************************************)
Range(seq) == {seq[k] : k \in 1..Len(seq)}

KindCount(errors, kinds) ==
    Cardinality({k \in 1..Len(errors) : errors[k].kind \in kinds})

\* the students booked in the slot (podId, timeString), <<>> when it is free
SlotStudents(podId, timeString) ==
    IF \E i \in 1..Len(bookings) :
           bookings[i].podId = podId /\ bookings[i].time = timeString
    THEN bookings[CHOOSE i \in 1..Len(bookings) :
             bookings[i].podId = podId /\ bookings[i].time = timeString].students
    ELSE <<>>

\* the student is booked at timeString in a pod other than podId
BookedElsewhere(studentId, podId, timeString) ==
    \E i \in 1..Len(bookings) :
        /\ bookings[i].time = timeString
        /\ bookings[i].podId # podId
        /\ studentId \in Range(bookings[i].students)

IdC == <<"C">>

(***************************************************************************)
(* C1: in every reachable state every booking holds at most 4 students.    *)
(***************************************************************************)
C1_CapacityNeverExceeded ==
    \A i \in 1..Len(bookings) : Len(bookings[i].students) <= 4

\* a slot was filled to the capacity by merging, and a further request for it
\* was turned down
C1_Witness ==
    \E i \in 1..Len(bookings) :
        /\ Len(bookings[i].students) = 4
        /\ \E k \in 1..Len(errorsShown) :
               /\ errorsShown[k].kind = "capacity"
               /\ errorsShown[k].current = 4

(***************************************************************************)
(* C2: in every reachable state no student ID is in two bookings that have *)
(* the same time and different pods.                                       *)
(***************************************************************************)
C2_NoCrossPodDoubleBooking ==
    \A i, j \in 1..Len(bookings) :
        (bookings[i].time = bookings[j].time
            /\ bookings[i].podId # bookings[j].podId)
        => Range(bookings[i].students) \cap Range(bookings[j].students) = {}

\* two pods are booked at the same time and a request that would have put a
\* student of one into the other was turned down
C2_Witness ==
    /\ \E i, j \in 1..Len(bookings) :
           /\ bookings[i].time = bookings[j].time
           /\ bookings[i].podId # bookings[j].podId
    /\ \E k \in 1..Len(errorsShown) : errorsShown[k].kind = "clash"

(***************************************************************************)
(* C3: in every reachable state the student IDs of one booking are         *)
(* pairwise distinct.                                                      *)
(***************************************************************************)
C3_IdsDistinctInBooking ==
    \A i \in 1..Len(bookings) :
        \A j, k \in 1..Len(bookings[i].students) :
            j # k => bookings[i].students[j] # bookings[i].students[k]

\* a booking has grown by a merge and a request repeating one of its
\* students was turned down
C3_Witness ==
    \E i \in 1..Len(bookings) :
        /\ Len(bookings[i].students) >= 3
        /\ \E k \in 1..Len(errorsShown) :
               /\ errorsShown[k].kind = "duplicate"
               /\ errorsShown[k].student \in Range(bookings[i].students)
               /\ errorsShown[k].podId = bookings[i].podId
               /\ errorsShown[k].time = bookings[i].time

(***************************************************************************)
(* C4: in every reachable state the store holds at most one booking per    *)
(* (podId, time) pair.                                                     *)
(***************************************************************************)
C4_OneBookingPerSlot ==
    \A i, j \in 1..Len(bookings) :
        (bookings[i].podId = bookings[j].podId
            /\ bookings[i].time = bookings[j].time) => i = j

\* an accepted submission to the booked slot POD-A 09:00 was appended to it
C4_Witness ==
    /\ Len(bookings) = 2
    /\ bookings[1].podId = "POD-A"
    /\ bookings[1].time = T0900
    /\ bookings[1].students = <<SIT001, SIT045, IdC>>
    /\ errorsShown = <<>>

(***************************************************************************)
(* C5: no step decreases the duplicate-attempt counter, and a step that    *)
(* removes a booking leaves it unchanged.                                  *)
(***************************************************************************)
C5_CounterNeverDecreases ==
    [][ /\ duplicateAttempts' >= duplicateAttempts
        /\ (Len(bookings') < Len(bookings)
               => duplicateAttempts' = duplicateAttempts) ]_vars

\* violations were counted and every booking was removed
C5_Witness ==
    /\ duplicateAttempts = MaxDup
    /\ bookings = <<>>

(***************************************************************************)
(* C6: a call of validateBooking increases the counter by the number of    *)
(* incoming IDs already in the target slot plus the number of incoming IDs *)
(* booked in another pod at that time, which is the number of duplicate    *)
(* and clash messages it returns; the other rules never change it.         *)
(***************************************************************************)
C6_CounterCountsConflicts ==
    [][ returned'.called =>
          LET ids      == returned'.studentIds
              existing == Range(SlotStudents(returned'.podId,
                                             returned'.timeString))
              dups     == {i \in 1..Len(ids) : ids[i] \in existing}
              clashes  == {i \in 1..Len(ids) :
                              BookedElsewhere(ids[i], returned'.podId,
                                              returned'.timeString)}
          IN  /\ duplicateAttempts' - duplicateAttempts
                     = Cardinality(dups) + Cardinality(clashes)
              /\ KindCount(returned'.errors, {"duplicate"})
                     = Cardinality(dups)
              /\ KindCount(returned'.errors, {"clash"})
                     = Cardinality(clashes) ]_vars

\* one student already in the target slot: one message, counter 0 -> 1
C6_Witness ==
    /\ returned.called
    /\ Len(returned.studentIds) = 1
    /\ returned.errors = <<DuplicateError(returned.studentIds[1],
                                          returned.podId,
                                          returned.timeString)>>
    /\ duplicateAttempts = 1

(***************************************************************************)
(* C7: a step that ends with an error shown (a rejected submission)        *)
(* leaves the booking store unchanged.                                     *)
(***************************************************************************)
C7_RejectionKeepsStore ==
    [][ errorsShown' # <<>> => bookings' = bookings ]_vars

\* a request was rejected with several violations while three slots are
\* booked
C7_Witness ==
    /\ Len(errorsShown) >= 2
    /\ Len(bookings) = 3

(***************************************************************************)
(* C8: a request with a pod, a time and a student list that repeats an ID  *)
(* ends with the single message naming the first repeated ID, and changes  *)
(* neither the counter nor the store.                                      *)
(***************************************************************************)
FirstRepeatedId(ids) ==
    ids[CHOOSE i \in 1..Len(ids) :
            /\ ids[i] \in {ids[j] : j \in 1..(i - 1)}
            /\ \A k \in 1..(i - 1) : ids[k] \notin {ids[j] : j \in 1..(k - 1)}]

\* the student inputs whose parsed list repeats an ID
RepeatingInputs ==
    {s \in StudentInputs :
        Cardinality(Range(parseStudentIds(s))) < Len(parseStudentIds(s))}

C8_InRequestDuplicateRejected ==
    [][ \A s \in RepeatingInputs :
          \A p \in PodInputs \ {""}, t \in TimeInputs \ {<<>>} :
              SubmitWith(p, t, s)
              => /\ errorsShown' =
                        <<[kind |-> "inRequestDuplicate",
                           student |-> FirstRepeatedId(parseStudentIds(s))]>>
                 /\ duplicateAttempts' = duplicateAttempts
                 /\ bookings' = bookings ]_vars

\* the repeated ID is also booked already, and nothing was counted
C8_Witness ==
    /\ errorsShown = <<[kind |-> "inRequestDuplicate", student |-> IdC]>>
    /\ \E i \in 1..Len(bookings) : IdC \in Range(bookings[i].students)
    /\ duplicateAttempts = 0

(***************************************************************************)
(* C9: the list returned by validateBooking has a message for every        *)
(* violated rule: operating hours, empty roster, capacity, each incoming   *)
(* ID already in the slot, each incoming ID booked in another pod.         *)
(***************************************************************************)
C9_AllViolationsReported ==
    returned.called =>
        LET ids      == returned.studentIds
            p        == returned.podId
            t        == returned.timeString
            existing == SlotStudents(p, t)
            errs     == Range(returned.errors)
        IN  /\ ~isWithinOperatingHours(t) => [kind |-> "hours"] \in errs
            /\ Len(ids) = 0 => [kind |-> "empty"] \in errs
            /\ Len(existing) + Len(ids) > 4
                   => \E e \in errs : e.kind = "capacity"
            /\ \A i \in 1..Len(ids) :
                   /\ ids[i] \in Range(existing)
                          => [kind |-> "duplicate", student |-> ids[i],
                              podId |-> p, time |-> t] \in errs
                   /\ BookedElsewhere(ids[i], p, t)
                          => [kind |-> "clash", student |-> ids[i],
                              time |-> t] \in errs

\* one call reported a capacity violation together with a cross-pod clash
C9_Witness ==
    /\ returned.called
    /\ \E e \in Range(returned.errors) : e.kind = "capacity"
    /\ \E e \in Range(returned.errors) : e.kind = "clash"

(***************************************************************************)
(* C10: validateBooking reports a capacity violation exactly when the      *)
(* students in the slot plus the incoming students exceed 4, and the       *)
(* message carries those current, adding and maximum counts.               *)
(***************************************************************************)
C10_CapacityRule ==
    returned.called =>
        LET current == Len(SlotStudents(returned.podId, returned.timeString))
            adding  == Len(returned.studentIds)
            reports == {k \in 1..Len(returned.errors) :
                           returned.errors[k].kind = "capacity"}
        IN  IF current + adding > 4
            THEN /\ Cardinality(reports) = 1
                 /\ \A k \in reports :
                        returned.errors[k] =
                            [kind |-> "capacity", current |-> current,
                             adding |-> adding, maximum |-> 4]
            ELSE reports = {}

\* one more student for a slot that holds four
C10_Witness ==
    /\ returned.called
    /\ [kind |-> "capacity", current |-> 4, adding |-> 1, maximum |-> 4]
           \in Range(returned.errors)

\* a request that fills the slot to exactly four is not a capacity violation
C10_WitnessFull ==
    /\ returned.called
    /\ Len(SlotStudents(returned.podId, returned.timeString)) = 2
    /\ Len(returned.studentIds) = 2
    /\ returned.errors = <<>>

(***************************************************************************)
(* C11: validateBooking reports a cross-pod clash for an incoming student  *)
(* exactly when the student is in a booking with the same time and another *)
(* pod; a call whose students are booked in other pods only at other times *)
(* and that violates no other rule returns no error.                       *)
(***************************************************************************)
\* the student is in some booking of a pod other than podId
InOtherPod(studentId, podId) ==
    \E i \in 1..Len(bookings) :
        /\ bookings[i].podId # podId
        /\ studentId \in Range(bookings[i].students)

C11_ClashExactlyAtSameTime ==
    returned.called =>
        LET ids == returned.studentIds
            p   == returned.podId
            t   == returned.timeString
        IN  /\ \A e \in Range(returned.errors) :
                   e.kind = "clash"
                   => /\ e.time = t
                      /\ e.student \in Range(ids)
                      /\ BookedElsewhere(e.student, p, t)
            /\ \A i \in 1..Len(ids) :
                   BookedElsewhere(ids[i], p, t)
                   => [kind |-> "clash", student |-> ids[i], time |-> t]
                          \in Range(returned.errors)
            /\ ( /\ isWithinOperatingHours(t)
                 /\ ids # <<>>
                 /\ Len(SlotStudents(p, t)) + Len(ids) <= 4
                 /\ \A i \in 1..Len(ids) :
                        /\ ids[i] \notin Range(SlotStudents(p, t))
                        /\ ~BookedElsewhere(ids[i], p, t) )
               => returned.errors = <<>>

\* a student booked in another pod at another time passed validation
C11_Witness ==
    /\ returned.called
    /\ returned.errors = <<>>
    /\ \E i \in 1..Len(returned.studentIds) :
           InOtherPod(returned.studentIds[i], returned.podId)

\* a student booked in another pod at the same time was reported
C11_WitnessClash ==
    /\ returned.called
    /\ \E e \in Range(returned.errors) : e.kind = "clash"

(***************************************************************************)
(* C12: an accepted submission either appends the incoming IDs, in request *)
(* order, to the booking of the slot, which keeps its position, or adds a  *)
(* new booking with the incoming list at the end of the store; every other *)
(* booking and the order of the store are unchanged.                       *)
(***************************************************************************)
IdA == <<"A">>

IdB == <<"B">>

C12_AcceptedSubmissionFrame ==
    [][ \A p \in PodInputs, t \in TimeInputs, s \in StudentInputs :
          ( /\ bookings' # bookings
            /\ Len(bookings') >= Len(bookings)
            /\ SubmitWith(p, t, s) )
          => LET ids  == parseStudentIds(s)
                 slot == {i \in 1..Len(bookings) :
                             bookings[i].podId = p /\ bookings[i].time = t}
             IN  IF slot # {}
                 THEN /\ Len(bookings') = Len(bookings)
                      /\ \A i \in 1..Len(bookings) :
                             IF i \in slot
                             THEN /\ bookings'[i].podId = p
                                  /\ bookings'[i].time = t
                                  /\ bookings'[i].students
                                         = bookings[i].students \o ids
                             ELSE bookings'[i] = bookings[i]
                 ELSE /\ Len(bookings') = Len(bookings) + 1
                      /\ \A i \in 1..Len(bookings) : bookings'[i] = bookings[i]
                      /\ bookings'[Len(bookings')]
                             = [podId |-> p, time |-> t, students |-> ids] ]_vars

\* two IDs were appended in request order to the first booking and a booking
\* was created at the end of the store
C12_Witness ==
    /\ Len(bookings) = 3
    /\ bookings[1] = [podId |-> "POD-A", time |-> T0900,
                      students |-> <<SIT001, SIT045, IdA, IdB>>]
    /\ bookings[2] = initialBookings[2]
    /\ bookings[3] = [podId |-> "POD-B", time |-> T0900,
                      students |-> <<IdC>>]

(***************************************************************************)
(* C13: a click with a valid index removes exactly the booking at that     *)
(* index: the shown totalBookings goes down by 1, the other bookings keep  *)
(* their contents and order, and the shown uniqueStudents is the number of *)
(* students of the remaining bookings; any other index changes nothing.    *)
(***************************************************************************)
C13_RemovalFrame ==
    [][ \A k \in -1..Len(bookings) :
          RemoveAt(k) =>
            IF k >= 0 /\ k < Len(bookings)
            THEN /\ Len(bookings') = Len(bookings) - 1
                 /\ \A i \in 1..k : bookings'[i] = bookings[i]
                 /\ \A i \in (k + 1)..(Len(bookings) - 1) :
                        bookings'[i] = bookings[i + 1]
                 /\ insightsShown'.totalBookings
                        = insightsShown.totalBookings - 1
                 /\ insightsShown'.uniqueStudents
                        = Cardinality(UNION {Range(bookings[i].students) :
                                        i \in (1..Len(bookings)) \ {k + 1}})
            ELSE UNCHANGED <<bookings, duplicateAttempts, errorsShown,
                             insightsShown>> ]_vars

\* the second of three bookings was removed; its student is still counted,
\* being in the booking made after it
C13_Witness ==
    /\ bookings = <<initialBookings[1],
                    [podId |-> "POD-B", time |-> T0900,
                     students |-> <<SMC210>>]>>
    /\ insightsShown.totalBookings = 2
    /\ insightsShown.uniqueStudents = 3

(***************************************************************************)
(* Vocabulary of the insights properties.                                  *)
(***************************************************************************)
\* the seats (booking, position) of the bookings selected by the indices in I
Seats(I) ==
    {<<i, j>> \in (1..Len(bookings)) \X (1..MaxPerSlot) :
        i \in I /\ j <= Len(bookings[i].students)}

\* the number of students booked at time t, over all pods
StudentsAt(t) ==
    Cardinality(Seats({i \in 1..Len(bookings) : bookings[i].time = t}))

\* the position of the first booking with time t
FirstAt(t) ==
    CHOOSE i \in 1..Len(bookings) :
        /\ bookings[i].time = t
        /\ \A k \in 1..(i - 1) : bookings[k].time # t

BookedTimes == {bookings[i].time : i \in 1..Len(bookings)}

(***************************************************************************)
(* C14: the busiestHour of recomputeInsights is the time with the largest  *)
(* total of students over all bookings with that time; among times with    *)
(* the same total the one that comes first in the store wins; for an empty *)
(* store it is the 'no bookings' value.                                    *)
(***************************************************************************)
C14_BusiestHour ==
    returned.called =>
        LET hour == returned.insights.busiestHour
        IN  IF bookings = <<>>
            THEN hour = <<"No bookings yet">>
            ELSE /\ hour \in BookedTimes
                 /\ \A u \in BookedTimes \ {hour} :
                        \/ StudentsAt(u) < StudentsAt(hour)
                        \/ /\ StudentsAt(u) = StudentsAt(hour)
                           /\ FirstAt(hour) < FirstAt(u)

\* two times have the same, largest, total and the one booked first is
\* reported
C14_Witness ==
    /\ returned.called
    /\ bookings # <<>>
    /\ \E u \in BookedTimes \ {returned.insights.busiestHour} :
           StudentsAt(u) = StudentsAt(returned.insights.busiestHour)

\* the store is empty and the 'no bookings' value is reported
C14_WitnessEmpty ==
    /\ returned.called
    /\ bookings = <<>>
    /\ returned.insights.busiestHour = <<"No bookings yet">>

(***************************************************************************)
(* C15: the uniqueStudents of recomputeInsights is the number of distinct  *)
(* student IDs in the union of the student lists of all bookings.          *)
(***************************************************************************)
C15_UniqueStudents ==
    returned.called =>
        returned.insights.uniqueStudents
            = Cardinality(UNION {Range(bookings[i].students) :
                                     i \in 1..Len(bookings)})

\* a student is in two bookings and is counted once
C15_Witness ==
    /\ returned.called
    /\ \E i, j \in 1..Len(bookings) :
           /\ i # j
           /\ Range(bookings[i].students) \cap Range(bookings[j].students)
                  # {}
    /\ returned.insights.uniqueStudents
           < Cardinality(Seats(1..Len(bookings)))

(***************************************************************************)
(* C16: for each pod of the catalog recomputeInsights reports bookedSeats, *)
(* the sum of the student counts of the pod's bookings, slotsUsed, the     *)
(* number of distinct times booked for the pod, and fillRate, which is     *)
(* bookedSeats / (capacity * slotsUsed) * 100 rounded to one decimal       *)
(* place, halves upwards, when slotsUsed > 0 and 0 otherwise.              *)
(***************************************************************************)
C16_PodFillRates ==
    returned.called =>
        /\ Len(returned.insights.podFillRates) = Len(pods)
        /\ \A n \in 1..Len(pods) :
               LET rate  == returned.insights.podFillRates[n]
                   own   == {i \in 1..Len(bookings) :
                                bookings[i].podId = pods[n].id}
                   seats == Cardinality(Seats(own))
                   slots == Cardinality({bookings[i].time : i \in own})
                   whole == pods[n].capacity * slots
                   \* the multiple of 0.1 nearest to seats / whole * 100,
                   \* in tenths
                   tenths == (2 * 1000 * seats + whole) \div (2 * whole)
               IN  /\ rate.podId = pods[n].id
                   /\ rate.bookedSeats = seats
                   /\ rate.slotsUsed = slots
                   /\ rate.fillRate = IF slots > 0 THEN Quotient(tenths, 10)
                                      ELSE Zero

(***************************************************************************)
(* C17: isWithinOperatingHours returns true for every valid HH:MM with     *)
(* 8 <= hour < 20, and false for hour < 8, for hour >= 20 and for every    *)
(* malformed time string, that is, every string that is not two digits, a  *)
(* colon and two digits with hour <= 23 and minute <= 59.                  *)
(***************************************************************************)
\* the two-digit number at positions k and k + 1 of t
TwoDigits(t, k) == DigitValue(t[k]) * 10 + DigitValue(t[k + 1])

IsHHMM(t) ==
    /\ Len(t) = 5
    /\ IsDigit(t[1]) /\ IsDigit(t[2]) /\ t[3] = ":"
    /\ IsDigit(t[4]) /\ IsDigit(t[5])
    /\ TwoDigits(t, 1) <= 23
    /\ TwoDigits(t, 4) <= 59

C17_OperatingHours ==
    returned.called =>
        LET t == returned.timeString
        IN  returned.result
                = (IsHHMM(t) /\ 8 <= TwoDigits(t, 1) /\ TwoDigits(t, 1) < 20)

(***************************************************************************)
(* C19: parseStudentIds returns the comma-separated tokens of its input in *)
(* their order, each trimmed of whitespace and in upper case, without the  *)
(* empty ones and with the repeated ones; an empty or blank input gives    *)
(* the empty sequence.                                                     *)
(***************************************************************************)
Commas(s) == {k \in 1..Len(s) : s[k] = ","}

\* position of the n-th comma of s, 0 for n = 0 and Len(s) + 1 past the last
CommaAt(s, n) ==
    IF n = 0 THEN 0
    ELSE IF n > Cardinality(Commas(s)) THEN Len(s) + 1
    ELSE CHOOSE k \in Commas(s) :
             Cardinality({j \in Commas(s) : j <= k}) = n

Token(s, n) == SubSeq(s, CommaAt(s, n - 1) + 1, CommaAt(s, n) - 1)

Trimmed(tok) ==
    LET inked == {k \in 1..Len(tok) : tok[k] \notin Whitespace}
    IN  IF inked = {} THEN <<>>
        ELSE SubSeq(tok, CHOOSE k \in inked : \A j \in inked : k <= j,
                         CHOOSE k \in inked : \A j \in inked : j <= k)

NonEmpty(tok) == tok # <<>>

CleanTokens(s) ==
    SelectSeq([n \in 1..(Cardinality(Commas(s)) + 1) |->
                   toUpperCase(Trimmed(Token(s, n)))],
              NonEmpty)

C19_ParseStudentIds ==
    returned.called =>
        /\ returned.ids = CleanTokens(returned.inputString)
        /\ (\A k \in 1..Len(returned.inputString) :
                returned.inputString[k] \in Whitespace)
               => returned.ids = <<>>

\* " sit-1 , SIT-1 ,, b " gives SIT-1, SIT-1, B
C19_Witness ==
    /\ returned.called
    /\ returned.inputString = LongText
    /\ returned.ids = << <<"S", "I", "T", "-", "1">>,
                         <<"S", "I", "T", "-", "1">>, <<"B">> >>

(***************************************************************************)
(* C20: after every completed user action, an accepted submission, a       *)
(* rejected submission or a removal, the insights panel shows              *)
(* recomputeInsights of the current store and the current counter, so the  *)
(* duplicateAttempts it shows is the current value of the counter.         *)
(***************************************************************************)
C20_PanelIsCurrent ==
    /\ insightsShown = recomputeInsights(bookings, pods, duplicateAttempts)
    /\ insightsShown.duplicateAttempts = duplicateAttempts

(***************************************************************************)
(* C21: in every reachable state every booking of the store has at least   *)
(* one student, so the busiestHour that recomputeInsights gives for the    *)
(* store is 'No bookings yet' exactly when the store is empty.             *)
(***************************************************************************)
C21_EveryBookingHasAStudent ==
    /\ \A i \in 1..Len(bookings) : Len(bookings[i].students) >= 1
    /\ (recomputeInsights(bookings, pods, duplicateAttempts).busiestHour
            = NoBookingsYet) <=> (bookings = <<>>)

\* a submission whose text holds no student ID was turned down and the
\* store, to which an earlier submission added a booking, has a busiest hour
C21_Witness ==
    /\ \E k \in 1..Len(errorsShown) : errorsShown[k] = NoValidIdsError
    /\ Len(bookings) > Len(initialBookings)
    /\ bookings # <<>>
    /\ insightsShown.busiestHour # NoBookingsYet

\* every booking was removed and the panel shows 'No bookings yet'
C21_WitnessEmpty ==
    /\ bookings = <<>>
    /\ insightsShown.busiestHour = NoBookingsYet

(***************************************************************************)
(* C22: in every reachable state no incoming student triggers both the     *)
(* duplicate of its slot and a clash with another pod in one validation,   *)
(* so one validation increases duplicateAttempts by at most the number of  *)
(* student IDs of the request.                                             *)
(***************************************************************************)
\* the validation just made reports studentId with an error of this kind
Reported(r, studentId, kind) ==
    \E k \in 1..Len(r.errors) :
        r.errors[k].kind = kind /\ r.errors[k].student = studentId

C22_NoIdCountedTwice ==
    [][returned'.called =>
          /\ \A n \in 1..Len(returned'.studentIds) :
                 ~ /\ Reported(returned', returned'.studentIds[n], "duplicate")
                   /\ Reported(returned', returned'.studentIds[n], "clash")
          /\ duplicateAttempts' - duplicateAttempts
                 <= Len(returned'.studentIds)]_vars

\* a validation of two IDs found both in conflict, one of them already in
\* the slot, and counted two attempts
C22_Witness ==
    /\ returned.called
    /\ Len(returned.studentIds) = 2
    /\ duplicateAttempts = 2
    /\ KindCount(returned.errors, {"duplicate", "clash"}) = 2
    /\ Reported(returned, returned.studentIds[1], "duplicate")

(***************************************************************************)
(* C23: in every reachable state recomputeInsights gives, for every pod of *)
(* the catalog, bookedSeats <= capacity * slotsUsed, so every fillRate is  *)
(* between 0 and 100 inclusive.                                            *)
(***************************************************************************)
\* x <= y for two doubles x, y >= 0
AtMost(x, y) ==
    \/ x = Zero
    \/ /\ y # Zero
       /\ \/ x.exp < y.exp
          \/ /\ x.exp = y.exp
             /\ \/ x.hi < y.hi
                \/ x.hi = y.hi /\ x.mid < y.mid
                \/ x.hi = y.hi /\ x.mid = y.mid /\ x.lo <= y.lo

\* the double 100
Hundred == Quotient(100, 1)

C23_FillRateWithinBounds ==
    LET rates == recomputeInsights(bookings, pods,
                                   duplicateAttempts).podFillRates
    IN  \A n \in 1..Len(pods) :
            /\ rates[n].bookedSeats <= pods[n].capacity * rates[n].slotsUsed
            /\ AtMost(Zero, rates[n].fillRate)
            /\ AtMost(rates[n].fillRate, Hundred)

\* the panel shows a pod whose only slot is full, at 100 percent, and a pod
\* without a slot, at 0
C23_Witness ==
    /\ insightsShown = recomputeInsights(bookings, pods, duplicateAttempts)
    /\ \E n \in 1..Len(pods) :
           /\ insightsShown.podFillRates[n].slotsUsed = 1
           /\ insightsShown.podFillRates[n].bookedSeats = pods[n].capacity
           /\ insightsShown.podFillRates[n].fillRate = Hundred
    /\ \E n \in 1..Len(pods) :
           /\ insightsShown.podFillRates[n].slotsUsed = 0
           /\ insightsShown.podFillRates[n].fillRate = Zero

====
